---- MODULE Spec2Model ----
(***************************************************************************)
(* Job orchestration and status tracking of stage-social-creator:          *)
(* api/main.py (create_profiles, _run_creation_job), db/database.py (DB)   *)
(* and the part of workers/naming_engine.py that feeds the job row.        *)
(*                                                                         *)
(* Strings are sequences of one-character strings; NULL is SQL NULL and    *)
(* Python None.                                                            *)
(***************************************************************************)
EXTENDS Integers, Sequences, FiniteSets, TLC

\* SQL NULL / Python None in a column or field that holds an opaque token
NULL == "<null>"

\* SQL NULL / Python None in a column or field that holds text (a character sequence)
NullText == <<"<null>">>

(***************************************************************************)
(* Bounds of the model.                                                    *)
(***************************************************************************)
\* rows the profiles table may hold (number of submit requests served)
MaxJobs == 2
\* pipelines (_run_creation_job) that may be between start and end at once
MaxRunning == 1
\* largest value of the wall clock; the clock starts at 1
MaxClock == 2

JobIds == 1..MaxJobs

(***************************************************************************)
(* Character-level string helpers (Python str methods and re.sub).         *)
(***************************************************************************)
LowerLetters == {"a", "b", "c", "d", "e", "f", "g", "h", "i", "j", "k", "l", "m",
                 "n", "o", "p", "q", "r", "s", "t", "u", "v", "w", "x", "y", "z"}

Digits == {"0", "1", "2", "3", "4", "5", "6", "7", "8", "9"}

UpperOf == [c \in LowerLetters |->
              CASE c = "a" -> "A" [] c = "b" -> "B" [] c = "c" -> "C" [] c = "d" -> "D"
                [] c = "e" -> "E" [] c = "f" -> "F" [] c = "g" -> "G" [] c = "h" -> "H"
                [] c = "i" -> "I" [] c = "j" -> "J" [] c = "k" -> "K" [] c = "l" -> "L"
                [] c = "m" -> "M" [] c = "n" -> "N" [] c = "o" -> "O" [] c = "p" -> "P"
                [] c = "q" -> "Q" [] c = "r" -> "R" [] c = "s" -> "S" [] c = "t" -> "T"
                [] c = "u" -> "U" [] c = "v" -> "V" [] c = "w" -> "W" [] c = "x" -> "X"
                [] c = "y" -> "Y" [] OTHER -> "Z"]

UpperLetters == {UpperOf[c] : c \in LowerLetters}

\* str.lower() on one character
LowerChar(c) ==
    IF c \in UpperLetters THEN CHOOSE l \in LowerLetters : UpperOf[l] = c ELSE c

\* str.upper() on one character
UpperChar(c) == IF c \in LowerLetters THEN UpperOf[c] ELSE c

IsLetter(c) == c \in LowerLetters \cup UpperLetters

\* the class [a-z0-9] of the naming engine's regular expressions
IsSlugChar(c) == c \in LowerLetters \cup Digits

Lower(s) == [i \in 1..Len(s) |-> LowerChar(s[i])]

Upper(s) == [i \in 1..Len(s) |-> UpperChar(s[i])]

\* str.title(): a letter is upper-cased after a non-letter, lower-cased after a letter
TitleCase(s) ==
    [i \in 1..Len(s) |->
        IF i = 1 \/ ~IsLetter(s[i - 1]) THEN UpperChar(s[i]) ELSE LowerChar(s[i])]

\* s[:n]
Take(s, n) == SubSeq(s, 1, IF Len(s) < n THEN Len(s) ELSE n)

RECURSIVE LStrip(_, _)
LStrip(s, chars) ==
    IF s # <<>> /\ Head(s) \in chars THEN LStrip(Tail(s), chars) ELSE s

RECURSIVE RStrip(_, _)
RStrip(s, chars) ==
    IF s # <<>> /\ s[Len(s)] \in chars THEN RStrip(SubSeq(s, 1, Len(s) - 1), chars) ELSE s

\* str.strip(chars)
Strip(s, chars) == RStrip(LStrip(s, chars), chars)

Whitespace == {" "}

\* re.sub(r"[^a-z0-9]+", separator, s): every maximal run of other characters
\* becomes one separator
RECURSIVE SubNonSlug(_, _, _)
SubNonSlug(s, sep, inRun) ==
    IF s = <<>> THEN <<>>
    ELSE IF IsSlugChar(Head(s)) THEN <<Head(s)>> \o SubNonSlug(Tail(s), sep, FALSE)
    ELSE IF inRun THEN SubNonSlug(Tail(s), sep, TRUE)
    ELSE <<sep>> \o SubNonSlug(Tail(s), sep, TRUE)

\* re.sub(r"\.{2,}", ".", s)
RECURSIVE CollapseDots(_)
CollapseDots(s) ==
    IF Len(s) < 2 THEN s
    ELSE IF s[1] = "." /\ s[2] = "." THEN CollapseDots(Tail(s))
    ELSE <<Head(s)>> \o CollapseDots(Tail(s))

\* keep the characters of s that satisfy the class given as a set
RECURSIVE Keep(_, _)
Keep(s, class) ==
    IF s = <<>> THEN <<>>
    ELSE IF Head(s) \in class THEN <<Head(s)>> \o Keep(Tail(s), class)
    ELSE Keep(Tail(s), class)

(***************************************************************************)
(* workers/naming_engine.py                                                *)
(***************************************************************************)
DISTRICT_CANONICAL ==
    { <<"b","a","n","s","w","a","r","a">>, <<"d","u","n","g","a","r","p","u","r">>,
      <<"p","r","a","t","a","p","g","a","r","h">>, <<"u","d","a","i","p","u","r">>,
      <<"r","a","j","s","a","m","a","n","d">>, <<"s","a","l","u","m","b","a","r">>,
      <<"k","o","t","a">>, <<"b","u","n","d","i">>, <<"b","a","r","a","n">>,
      <<"j","h","a","l","a","w","a","r">>, <<"c","h","i","t","t","o","r","g","a","r","h">>,
      <<"b","h","i","l","w","a","r","a">> }

\* config/settings.py
BRAND_PREFIX == <<"S","T","A","G","E">>

\* every canonical value lower-cases to its key; titles are ASCII, so the
\* Devanagari branch is never taken
_to_roman(title) ==
    LET lower == Strip(Lower(title), Whitespace)
    IN  IF lower \in DISTRICT_CANONICAL THEN lower ELSE Lower(title)

to_slug(title) == Strip(SubNonSlug(_to_roman(title), "-", FALSE), {"-"})

_clean_ig(text) == Keep(Lower(text), LowerLetters \cup Digits \cup {"_", "."})

IgMaxLen == 30

_ig_safe(handle) == Take(Strip(CollapseDots(handle), {"."}), IgMaxLen)

generate_ig_handle(title, prefix) ==
    LET core == _clean_ig(Keep(_to_roman(title), LowerLetters \cup Digits))
        pre  == _clean_ig(prefix)
    IN  _ig_safe(IF pre # <<>> THEN pre \o <<".">> \o core ELSE core)

FbNameMaxLen == 75

generate_fb_page_name(title, prefix) ==
    Take(prefix \o <<" ">> \o TitleCase(title), FbNameMaxLen)

YtNameMaxLen == 100

generate_yt_channel_name(title, prefix) ==
    Take(prefix \o <<" ">> \o TitleCase(title), YtNameMaxLen)

generate_handles(title, brand_prefix) ==
    [ input_title     |-> title,
      roman_form      |-> _to_roman(title),
      slug            |-> to_slug(title),
      ig_handle       |-> generate_ig_handle(title, Lower(brand_prefix)),
      fb_page_name    |-> generate_fb_page_name(title, Upper(brand_prefix)),
      yt_channel_name |-> generate_yt_channel_name(title, Upper(brand_prefix)) ]

\* SocialHandles.as_dict, the value serialised into handles_json
as_dict(h) ==
    [ input_title |-> h.input_title,
      roman_form  |-> h.roman_form,
      slug        |-> h.slug,
      instagram   |-> [handle |-> <<"@">> \o h.ig_handle, handle_raw |-> h.ig_handle],
      facebook    |-> [page_name |-> h.fb_page_name],
      youtube     |-> [channel_name |-> h.yt_channel_name] ]

\* titles a request may carry
Titles == { <<"K","o","t","a">>, <<"k","o","t","a"," ">>, <<"U","p"," ","9">> }

(***************************************************************************)
(* State.                                                                  *)
(***************************************************************************)
VARIABLES
    profiles,     \* the profiles table: row i has id i (AUTOINCREMENT, no delete)
    clock,        \* time.time() in whole seconds
    args,         \* job id -> arguments of its background task _run_creation_job
    pc,           \* job id -> position of _run_creation_job
    fb_pc,        \* job id -> position of thread fb-<job_id>
    yt_pc,        \* job id -> position of thread yt-<job_id>
    fb_result,    \* job id -> local fb_result
    yt_result,    \* job id -> local yt_result
    ig_result,    \* job id -> local ig_result
    job,          \* job id -> local job (the row read before the overall mark)
    responses,    \* the CreateProfilesResponse of every request served, in order
    task_calls,   \* job id -> platforms whose creation task has been invoked
    callbacks,    \* job id -> payloads posted to the job's callback_url, in order
    pages,        \* context.pages of the shared Chrome: its open tabs (target id
                  \* and the site the tab shows), in order
    fb_tab,       \* create_facebook_page: its position and the page it holds
    yt_tab,       \* create_youtube_channel: its position and the page it holds
    query,        \* GET /status/{job_id}: its position, what it read and returned
    naming,       \* a call of generate_ig_handle: its arguments and what it returned
    cli,          \* a run of scripts/create_profiles.py: its position and locals
    ig_work,      \* create_instagram_account: its position and locals, with those
                  \* of the get_instagram_otp call it makes
    fb_work,      \* create_facebook_page: the locals of its redirect wait
    yt_work,      \* create_youtube_channel: the locals of its redirect wait
    yt_tab2       \* create_youtube_channel of a second job that runs at the
                  \* same time: its position and the page it holds

vars == <<profiles, clock, args, pc, fb_pc, yt_pc, fb_result, yt_result, ig_result,
          job, responses, task_calls, callbacks, pages, fb_tab, yt_tab, query, naming,
          cli, ig_work, fb_work, yt_work, yt_tab2>>

\* the locals of the platform tasks, which the pipeline and the script see
\* only through the results the tasks return
workers == <<ig_work, fb_work, yt_work, yt_tab2>>

\* the state of the parts that run outside the service: calls of the naming
\* engine by themselves and runs of the command-line script; and the locals of
\* the platform tasks
extra == <<naming, cli, workers>>

\* what the request handlers and the pipeline of api/main.py never write: the
\* tabs of the browser and the state of a status query
aux == <<pages, fb_tab, yt_tab, query, extra>>

\* Python None for a local that otherwise holds a record
None == [none |-> TRUE]

(***************************************************************************)
(* db/database.py                                                          *)
(***************************************************************************)
\* completed_at is an INTEGER column; 0 stands for its NULL (the clock starts at 1)
NullTime == 0

\* DB.create_job: the INSERT names six columns, the rest take the SCHEMA defaults
NewRow(id, title, handles_dict, now) ==
    [ id |-> id, title |-> title, slug |-> handles_dict.slug,
      handles_json |-> handles_dict,
      status |-> "pending",
      fb_status |-> "pending", fb_page_name |-> NullText, fb_page_id |-> NULL,
      fb_url |-> NULL, fb_error |-> NULL,
      yt_status |-> "pending", yt_channel_name |-> NullText, yt_channel_id |-> NULL,
      yt_url |-> NULL, yt_handle |-> NULL, yt_error |-> NULL,
      ig_status |-> "pending", ig_handle |-> NullText, ig_username |-> NullText,
      ig_password |-> NULL, ig_phone |-> NULL, ig_device_id |-> NULL,
      ig_warmup_day |-> 0, ig_warmup_status |-> "not_started",
      ig_url |-> NullText, ig_error |-> NULL,
      created_at |-> now, updated_at |-> now, completed_at |-> NullTime ]

\* create_job leaving handles_json out of the INSERT
create_job_without_handles(table, title, handles, now) ==
    Append(table, [NewRow(Len(table) + 1, title, as_dict(handles), now)
                     EXCEPT !.handles_json = None])

create_job(table, title, handles, now) ==
    Append(table, NewRow(Len(table) + 1, title, as_dict(handles), now))

\* DB._update: UPDATE profiles SET <kwargs>, updated_at = now WHERE id = job_id
_update(table, job_id, kwargs, now) ==
    [ i \in DOMAIN table |->
        IF table[i].id = job_id
        THEN [ c \in DOMAIN table[i] |->
                 IF c = "updated_at" THEN now
                 ELSE IF c \in DOMAIN kwargs THEN kwargs[c]
                 ELSE table[i][c] ]
        ELSE table[i] ]

\* update_fb marking Facebook failed when the result has no page id
update_fb_requires_id(table, job_id, page_id, page_url, page_name, now) ==
    IF page_id = ""
    THEN _update(table, job_id, [fb_status |-> "failed", fb_error |-> "no page id"], now)
    ELSE _update(table, job_id,
                 [fb_status |-> "done", fb_page_id |-> page_id, fb_url |-> page_url,
                  fb_page_name |-> page_name], now)

update_fb(table, job_id, page_id, page_url, page_name, now) ==
    _update(table, job_id,
            [fb_status |-> "done", fb_page_id |-> page_id, fb_url |-> page_url,
             fb_page_name |-> page_name], now)

\* fail_fb marking the YouTube status failed as well
fail_fb_and_yt(table, job_id, error, now) ==
    _update(table, job_id,
            [fb_status |-> "failed", fb_error |-> error, yt_status |-> "failed"], now)

fail_fb(table, job_id, error, now) ==
    _update(table, job_id, [fb_status |-> "failed", fb_error |-> error], now)

\* update_yt storing the channel URL in the Facebook URL column
update_yt_fb_url(table, job_id, channel_id, channel_url, channel_name, handle, now) ==
    _update(table, job_id,
            [yt_status |-> "done", yt_channel_id |-> channel_id, fb_url |-> channel_url,
             yt_channel_name |-> channel_name, yt_handle |-> handle], now)

update_yt(table, job_id, channel_id, channel_url, channel_name, handle, now) ==
    _update(table, job_id,
            [yt_status |-> "done", yt_channel_id |-> channel_id, yt_url |-> channel_url,
             yt_channel_name |-> channel_name, yt_handle |-> handle], now)

\* fail_yt copied from fail_fb with the column names left as they were
fail_yt_fb_columns(table, job_id, error, now) ==
    _update(table, job_id, [fb_status |-> "failed", fb_error |-> error], now)

fail_yt(table, job_id, error, now) ==
    _update(table, job_id, [yt_status |-> "failed", yt_error |-> error], now)

IgUrlPrefix ==
    <<"h","t","t","p","s",":","/","/","i","n","s","t","a","g","r","a","m",".","c","o","m","/">>

\* update_ig_created setting the Instagram status to done
update_ig_created_done(table, job_id, ig_username, ig_password, ig_phone, device_id, warmup_status, now) ==
    _update(table, job_id,
            [ig_status |-> "done", ig_handle |-> <<"@">> \o ig_username,
             ig_username |-> ig_username, ig_password |-> ig_password,
             ig_phone |-> ig_phone, ig_device_id |-> device_id,
             ig_warmup_status |-> warmup_status,
             ig_url |-> IgUrlPrefix \o ig_username], now)

update_ig_created(table, job_id, ig_username, ig_password, ig_phone, device_id, warmup_status, now) ==
    _update(table, job_id,
            [ig_status |-> "warming_up", ig_handle |-> <<"@">> \o ig_username,
             ig_username |-> ig_username, ig_password |-> ig_password,
             ig_phone |-> ig_phone, ig_device_id |-> device_id,
             ig_warmup_status |-> warmup_status,
             ig_url |-> IgUrlPrefix \o ig_username], now)

fail_ig(table, job_id, error, now) ==
    _update(table, job_id, [ig_status |-> "failed", ig_error |-> error], now)

update_ig_warmup_day(table, job_id, day, now) ==
    _update(table, job_id, [ig_warmup_day |-> day], now)

mark_ig_ready(table, job_id, now) ==
    _update(table, job_id, [ig_status |-> "ready", ig_warmup_status |-> "complete"], now)

mark_complete(table, job_id, now) ==
    _update(table, job_id, [status |-> "done", completed_at |-> now], now)

mark_failed(table, job_id, now) ==
    _update(table, job_id, [status |-> "failed"], now)

set_status(table, job_id, status, now) ==
    _update(table, job_id, [status |-> status], now)

\* DB.get_job: SELECT * FROM profiles WHERE id = ?
get_job(table, job_id) ==
    IF \E i \in DOMAIN table : table[i].id = job_id
    THEN table[CHOOSE i \in DOMAIN table : table[i].id = job_id]
    ELSE None

\* DB.get_by_slug: the first row with the slug
get_by_slug(table, slug) ==
    IF \E i \in DOMAIN table : table[i].slug = slug
    THEN table[CHOOSE i \in DOMAIN table :
                 /\ table[i].slug = slug
                 /\ \A k \in DOMAIN table : table[k].slug = slug => i <= k]
    ELSE None

\* DB.summary
summary(table, job_id) ==
    LET j == get_job(table, job_id)
    IN  IF j = None THEN None
        ELSE [ job_id |-> job_id, title |-> j.title, status |-> j.status,
               facebook  |-> [status |-> j.fb_status, page_name |-> j.fb_page_name,
                              url |-> j.fb_url],
               youtube   |-> [status |-> j.yt_status, channel_name |-> j.yt_channel_name,
                              handle |-> j.yt_handle, url |-> j.yt_url],
               instagram |-> [status |-> j.ig_status, handle |-> j.ig_handle,
                              warmup_day |-> j.ig_warmup_day,
                              warmup_status |-> j.ig_warmup_status, url |-> j.ig_url] ]

(***************************************************************************)
(* The platform tasks, as far as the pipeline sees them: the results they  *)
(* can return.  A task may also raise (connect_over_cdp and new_page run   *)
(* outside the workers' try blocks); create_instagram_account catches      *)
(* every exception and always returns a result.                            *)
(***************************************************************************)
\* workers/facebook_worker.py: FBPageResult values create_facebook_page returns
FBPageResults(page_name) ==
    { \* the id could not be extracted: page_url is the URL after the redirect
      [success |-> TRUE, page_id |-> NULL, page_name |-> page_name,
       page_url |-> "https://www.facebook.com/StageNew", error |-> NULL],
      [success |-> FALSE, page_id |-> NULL, page_name |-> NullText, page_url |-> NULL,
       error |-> "Facebook session expired"] }

\* workers/youtube_worker.py: YTChannelResult values create_youtube_channel returns
YTChannelResults(channel_name) ==
    { \* the channel id was extracted, the handle was not
      [success |-> TRUE, channel_id |-> "UCabc", channel_name |-> channel_name,
       channel_url |-> "https://www.youtube.com/channel/UCabc", handle |-> NULL,
       error |-> NULL],
      [success |-> FALSE, channel_id |-> NULL, channel_name |-> NullText,
       channel_url |-> NULL, handle |-> NULL, error |-> "Google session expired"] }

\* workers/instagram_worker.py: IGAccountResult values create_instagram_account returns
IGAccountResults(ig_handle) ==
    { [success |-> TRUE, ig_handle |-> <<"@">> \o ig_handle, ig_username |-> ig_handle,
       ig_password |-> "Pw#1", phone_used |-> "+91700", device_id |-> "dev-1",
       warmup_status |-> w, error |-> NULL] : w \in {"warming_up", "warmup_trigger_failed"} }
    \cup
    { [success |-> FALSE, ig_handle |-> NullText, ig_username |-> NullText,
       ig_password |-> NULL, phone_used |-> "+91700", device_id |-> "dev-1",
       warmup_status |-> "not_started", error |-> "OTP not received"] }

\* Python's  x or d  on an opaque token
Or(x, d) == IF x = NULL \/ x = "" THEN d ELSE x

\* Python's  x or d  on text
OrText(x, d) == IF x = NullText \/ x = <<>> THEN d ELSE x

CallbackUrls == {NULL, "https://crm.example/cb"}

(***************************************************************************)
(* api/main.py                                                             *)
(***************************************************************************)
\* no page: the value of a worker's page before it has one and after it ended
NoPage == 0

\* a worker that has not connected to Chrome yet
NotConnected == [pc |-> "start", page |-> NoPage, lost |-> FALSE]

\* no status query is being served
NoQuery == [pc |-> "idle", job_id |-> 0, job |-> None, response |-> None, row |-> None]

\* the tabs Chrome may have open when the workers connect: none, one, or the
\* two (Facebook, Google) the page selection of the YouTube worker expects
InitialPages ==
    { <<>>,
      << [id |-> 1, url |-> "chrome://newtab"] >>,
      << [id |-> 1, url |-> "facebook.com"], [id |-> 2, url |-> "youtube.com"] >> }

\* no call of the naming engine by itself has been made
NoNaming == [title |-> NullText, prefix |-> NullText, handle |-> NullText]

\* scripts/create_profiles.py has not been started
NoCli == [pc |-> "start", only |-> {}, given |-> FALSE, dry_run |-> FALSE,
          handles |-> None, job_id |-> 0, summary |-> None]

\* create_instagram_account has not been called
NoIgWork ==
    [pc |-> "start", service |-> "smsman", sms_on_submit |-> TRUE, device_polls |-> 0,
     otp_polls |-> 0, request_id |-> NULL, otp |-> NULL, confirms |-> 0, cancels |-> 0,
     phone_entered |-> FALSE, sms_sent |-> FALSE, otp_result |-> None, result |-> None]

\* a worker that has not reached its redirect wait
NoRedirectWait == [polls |-> 0, current_url |-> NULL, result |-> None]

\* no platform task has been called
IdleWorkers ==
    /\ ig_work = NoIgWork
    /\ fb_work = NoRedirectWait
    /\ yt_work = NoRedirectWait
    /\ yt_tab2 = NotConnected

\* nothing runs outside the service
IdleExtra ==
    /\ naming = NoNaming
    /\ cli = NoCli
    /\ IdleWorkers

\* the service has started and no request has been served
NoJobs ==
    /\ profiles = <<>>
    /\ clock = 1
    /\ args = [j \in JobIds |-> None]
    /\ pc = [j \in JobIds |-> "none"]
    /\ fb_pc = [j \in JobIds |-> "idle"]
    /\ yt_pc = [j \in JobIds |-> "idle"]
    /\ fb_result = [j \in JobIds |-> None]
    /\ yt_result = [j \in JobIds |-> None]
    /\ ig_result = [j \in JobIds |-> None]
    /\ job = [j \in JobIds |-> None]
    /\ responses = <<>>
    /\ task_calls = [j \in JobIds |-> {}]
    /\ callbacks = [j \in JobIds |-> <<>>]

Init ==
    /\ NoJobs
    /\ pages = << [id |-> 1, url |-> "chrome://newtab"] >>
    /\ fb_tab = NotConnected
    /\ yt_tab = NotConnected
    /\ query = NoQuery
    /\ IdleExtra

\* a second of wall-clock time passes
Tick ==
    /\ clock < MaxClock
    /\ clock' = clock + 1
    /\ UNCHANGED <<profiles, args, pc, fb_pc, yt_pc, fb_result, yt_result, ig_result,
                   job, responses, task_calls, callbacks>>
    /\ UNCHANGED aux

\* create_profiles awaiting the start of the pipeline before it answers
create_profiles_inline(title, callback_url) ==
    /\ Len(profiles) < MaxJobs
    /\ LET handles == generate_handles(title, BRAND_PREFIX)
           table   == create_job(profiles, title, handles, clock)
           job_id  == Len(table)
       IN  /\ profiles' = set_status(table, job_id, "in_progress", clock)
           /\ args' = [args EXCEPT ![job_id] =
                         [job_id |-> job_id, title |-> title, handles |-> handles,
                          callback_url |-> callback_url]]
           /\ pc' = [pc EXCEPT ![job_id] = "join"]
           /\ fb_pc' = [fb_pc EXCEPT ![job_id] = "running"]
           /\ yt_pc' = [yt_pc EXCEPT ![job_id] = "running"]
           /\ responses' = Append(responses,
                                  [job_id |-> job_id, status |-> "pending",
                                   handles |-> as_dict(handles)])
    /\ UNCHANGED <<clock, fb_result, yt_result, ig_result, job, task_calls, callbacks>>
    /\ UNCHANGED aux

\* POST /create-profiles: the handler has no await, so it runs to its return
\* without another handler in between; the background task starts later
create_profiles(title, callback_url) ==
    /\ Len(profiles) < MaxJobs
    /\ LET handles == generate_handles(title, BRAND_PREFIX)
           table   == create_job(profiles, title, handles, clock)
           job_id  == Len(table)
       IN  /\ profiles' = table
           /\ args' = [args EXCEPT ![job_id] =
                         [job_id |-> job_id, title |-> title, handles |-> handles,
                          callback_url |-> callback_url]]
           /\ pc' = [pc EXCEPT ![job_id] = "queued"]
           /\ responses' = Append(responses,
                                  [job_id |-> job_id, status |-> "pending",
                                   handles |-> as_dict(handles)])
    /\ UNCHANGED <<clock, fb_pc, yt_pc, fb_result, yt_result, ig_result, job,
                   task_calls, callbacks>>
    /\ UNCHANGED aux

Running == {j \in JobIds : pc[j] \notin {"none", "queued", "finished"}}

\* _run_creation_job up to fb_thread.start(); yt_thread.start()
RunStart(j) ==
    /\ pc[j] = "queued"
    /\ Cardinality(Running) < MaxRunning
    /\ profiles' = set_status(profiles, j, "in_progress", clock)
    /\ fb_pc' = [fb_pc EXCEPT ![j] = "running"]
    /\ yt_pc' = [yt_pc EXCEPT ![j] = "running"]
    /\ pc' = [pc EXCEPT ![j] = "join"]
    /\ UNCHANGED <<clock, args, fb_result, yt_result, ig_result, job, responses,
                   task_calls, callbacks>>
    /\ UNCHANGED aux

\* run_fb: create_facebook_page returns a result, which is kept in fb_result
FbReturn(j) ==
    /\ fb_pc[j] = "running"
    /\ \E result \in FBPageResults(args[j].handles.fb_page_name) :
          fb_result' = [fb_result EXCEPT ![j] = result]
    /\ fb_pc' = [fb_pc EXCEPT ![j] = "returned"]
    /\ task_calls' = [task_calls EXCEPT ![j] = @ \cup {"facebook"}]
    /\ UNCHANGED <<profiles, clock, args, pc, yt_pc, yt_result, ig_result, job,
                   responses, callbacks>>
    /\ UNCHANGED aux

\* run_fb: create_facebook_page raises; the thread ends with the exception
FbRaise(j) ==
    /\ fb_pc[j] = "running"
    /\ fb_pc' = [fb_pc EXCEPT ![j] = "raised"]
    /\ task_calls' = [task_calls EXCEPT ![j] = @ \cup {"facebook"}]
    /\ UNCHANGED <<profiles, clock, args, pc, yt_pc, fb_result, yt_result, ig_result,
                   job, responses, callbacks>>
    /\ UNCHANGED aux

\* run_fb: the result is written to the job row
FbRecord(j) ==
    /\ fb_pc[j] = "returned"
    /\ LET result == fb_result[j]
       IN  profiles' =
             IF result.success
             THEN update_fb(profiles, j, Or(result.page_id, ""), Or(result.page_url, ""),
                            OrText(result.page_name, <<>>), clock)
             ELSE fail_fb(profiles, j, Or(result.error, "Unknown error"), clock)
    /\ fb_pc' = [fb_pc EXCEPT ![j] = "done"]
    /\ UNCHANGED <<clock, args, pc, yt_pc, fb_result, yt_result, ig_result, job,
                   responses, task_calls, callbacks>>
    /\ UNCHANGED aux

\* run_yt: create_youtube_channel returns a result, which is kept in yt_result
YtReturn(j) ==
    /\ yt_pc[j] = "running"
    /\ \E result \in YTChannelResults(args[j].handles.yt_channel_name) :
          yt_result' = [yt_result EXCEPT ![j] = result]
    /\ yt_pc' = [yt_pc EXCEPT ![j] = "returned"]
    /\ task_calls' = [task_calls EXCEPT ![j] = @ \cup {"youtube"}]
    /\ UNCHANGED <<profiles, clock, args, pc, fb_pc, fb_result, ig_result, job,
                   responses, callbacks>>
    /\ UNCHANGED aux

\* run_yt: create_youtube_channel raises; the thread ends with the exception
YtRaise(j) ==
    /\ yt_pc[j] = "running"
    /\ yt_pc' = [yt_pc EXCEPT ![j] = "raised"]
    /\ task_calls' = [task_calls EXCEPT ![j] = @ \cup {"youtube"}]
    /\ UNCHANGED <<profiles, clock, args, pc, fb_pc, fb_result, yt_result, ig_result,
                   job, responses, callbacks>>
    /\ UNCHANGED aux

\* run_yt: the result is written to the job row (handle is passed as it is)
YtRecord(j) ==
    /\ yt_pc[j] = "returned"
    /\ LET result == yt_result[j]
       IN  profiles' =
             IF result.success
             THEN update_yt(profiles, j, Or(result.channel_id, ""),
                            Or(result.channel_url, ""),
                            OrText(result.channel_name, <<>>), result.handle, clock)
             ELSE fail_yt(profiles, j, Or(result.error, "Unknown error"), clock)
    /\ yt_pc' = [yt_pc EXCEPT ![j] = "done"]
    /\ UNCHANGED <<clock, args, pc, fb_pc, fb_result, yt_result, ig_result, job,
                   responses, task_calls, callbacks>>
    /\ UNCHANGED aux

\* fb_thread.join(); yt_thread.join(): both threads have ended, however they ended
Join(j) ==
    /\ pc[j] = "join"
    /\ fb_pc[j] \in {"done", "raised"}
    /\ yt_pc[j] \in {"done", "raised"}
    /\ pc' = [pc EXCEPT ![j] = "ig"]
    /\ UNCHANGED <<profiles, clock, args, fb_pc, yt_pc, fb_result, yt_result, ig_result,
                   job, responses, task_calls, callbacks>>
    /\ UNCHANGED aux

\* ig_result = create_instagram_account(ig_handle=handles.ig_handle)
IgReturn(j) ==
    /\ pc[j] = "ig"
    /\ \E result \in IGAccountResults(args[j].handles.ig_handle) :
          ig_result' = [ig_result EXCEPT ![j] = result]
    /\ pc' = [pc EXCEPT ![j] = "ig_returned"]
    /\ task_calls' = [task_calls EXCEPT ![j] = @ \cup {"instagram"}]
    /\ UNCHANGED <<profiles, clock, args, fb_pc, yt_pc, fb_result, yt_result, job,
                   responses, callbacks>>
    /\ UNCHANGED aux

\* the Instagram result is written to the job row
IgRecord(j) ==
    /\ pc[j] = "ig_returned"
    /\ LET result == ig_result[j]
       IN  profiles' =
             IF result.success
             THEN update_ig_created(profiles, j,
                                    OrText(result.ig_username, args[j].handles.ig_handle),
                                    Or(result.ig_password, ""), Or(result.phone_used, ""),
                                    Or(result.device_id, ""), result.warmup_status, clock)
             ELSE fail_ig(profiles, j, Or(result.error, "Unknown error"), clock)
    /\ pc' = [pc EXCEPT ![j] = "read"]
    /\ UNCHANGED <<clock, args, fb_pc, yt_pc, fb_result, yt_result, ig_result, job,
                   responses, task_calls, callbacks>>
    /\ UNCHANGED aux

\* job = db.get_job(job_id)
ReadJob(j) ==
    /\ pc[j] = "read"
    /\ job' = [job EXCEPT ![j] = get_job(profiles, j)]
    /\ pc' = [pc EXCEPT ![j] = "mark"]
    /\ UNCHANGED <<profiles, clock, args, fb_pc, yt_pc, fb_result, yt_result, ig_result,
                   responses, task_calls, callbacks>>
    /\ UNCHANGED aux

\* all_done computed with any() instead of all()
all_done_any(row) == \E k \in {"fb_status", "yt_status"} : row[k] = "done"

all_done(row) == \A k \in {"fb_status", "yt_status"} : row[k] = "done"

any_failed(row) == \E k \in {"fb_status", "yt_status", "ig_status"} : row[k] = "failed"

\* the status the "Mark overall job status" block writes, and with which method
OverallMark(row, ig_success) ==
    IF all_done(row) /\ ig_success THEN "mark_complete"
    ELSE IF any_failed(row) THEN "mark_failed"
    ELSE "partial"

\* the if / elif / else that marks the overall job status
MarkOverall(j) ==
    /\ pc[j] = "mark"
    /\ LET m == OverallMark(job[j], ig_result[j].success)
       IN  profiles' = CASE m = "mark_complete" -> mark_complete(profiles, j, clock)
                         [] m = "mark_failed"   -> mark_failed(profiles, j, clock)
                         [] OTHER               -> set_status(profiles, j, "partial", clock)
    /\ pc' = [pc EXCEPT ![j] = "callback"]
    /\ UNCHANGED <<clock, args, fb_pc, yt_pc, fb_result, yt_result, ig_result, job,
                   responses, task_calls, callbacks>>
    /\ UNCHANGED aux

\* the callback block marking the job failed when the post raises
Callback_marks_failed(j) ==
    /\ pc[j] = "callback"
    /\ IF args[j].callback_url # NULL /\ args[j].callback_url # ""
       THEN \E outcome \in {"sent", "failed"} :
              /\ callbacks' = [callbacks EXCEPT ![j] =
                                 Append(@, [url |-> args[j].callback_url,
                                            payload |-> summary(profiles, j),
                                            outcome |-> outcome])]
              /\ profiles' = IF outcome = "failed"
                             THEN mark_failed(profiles, j, clock)
                             ELSE profiles
       ELSE callbacks' = callbacks /\ profiles' = profiles
    /\ pc' = [pc EXCEPT ![j] = "finished"]
    /\ job' = [job EXCEPT ![j] = None]
    /\ UNCHANGED <<clock, args, fb_pc, yt_pc, fb_result, yt_result, ig_result,
                   responses, task_calls>>
    /\ UNCHANGED aux

\* the callback block and the return of _run_creation_job: with a callback_url the
\* summary is posted once, the post succeeds or raises (which is only logged).
\* fb_result, yt_result and ig_result stay as the record of what the tasks returned
Callback(j) ==
    /\ pc[j] = "callback"
    /\ IF args[j].callback_url # NULL /\ args[j].callback_url # ""
       THEN \E outcome \in {"sent", "failed"} :
              callbacks' = [callbacks EXCEPT ![j] =
                              Append(@, [url |-> args[j].callback_url,
                                         payload |-> summary(profiles, j),
                                         outcome |-> outcome])]
       ELSE callbacks' = callbacks
    /\ pc' = [pc EXCEPT ![j] = "finished"]
    /\ job' = [job EXCEPT ![j] = None]
    /\ UNCHANGED <<profiles, clock, args, fb_pc, yt_pc, fb_result, yt_result, ig_result,
                   responses, task_calls>>
    /\ UNCHANGED aux

Next ==
    \/ Tick
    \/ \E title \in Titles, callback_url \in CallbackUrls : create_profiles(title, callback_url)
    \/ \E j \in JobIds : RunStart(j)
    \/ \E j \in JobIds : FbReturn(j)
    \/ \E j \in JobIds : FbRaise(j)
    \/ \E j \in JobIds : FbRecord(j)
    \/ \E j \in JobIds : YtReturn(j)
    \/ \E j \in JobIds : YtRaise(j)
    \/ \E j \in JobIds : YtRecord(j)
    \/ \E j \in JobIds : Join(j)
    \/ \E j \in JobIds : IgReturn(j)
    \/ \E j \in JobIds : IgRecord(j)
    \/ \E j \in JobIds : ReadJob(j)
    \/ \E j \in JobIds : MarkOverall(j)
    \/ \E j \in JobIds : Callback(j)

Spec == Init /\ [][Next]_vars

(***************************************************************************)
(* workers/facebook_worker.py and workers/youtube_worker.py: the tabs of   *)
(* the Chrome both workers attach to. _run_creation_job starts the two     *)
(* workers in two threads; each makes its own CDP connection to the same   *)
(* Chrome, whose default context lists the same tabs to both.              *)
(***************************************************************************)
\* what the workers' use of the browser never writes
service == <<profiles, clock, args, pc, fb_pc, yt_pc, fb_result, yt_result, ig_result,
             job, responses, task_calls, callbacks>>

\* the target ids of the open tabs
TabIds(ps) == {ps[n].id : n \in DOMAIN ps}

\* the tab a new_page() opens: a target id no open tab has, showing about:blank
NewTab(ps) ==
    [id |-> CHOOSE n \in 1..(Len(ps) + 1) : n \notin TabIds(ps), url |-> "about:blank"]

\* the list of tabs after page.close()
Without(ps, page) ==
    LET keep[n \in 0..Len(ps)] ==
          IF n = 0 THEN <<>>
          ELSE IF ps[n].id = page THEN keep[n - 1] ELSE Append(keep[n - 1], ps[n])
    IN  keep[Len(ps)]

\* the list of tabs after page.goto(url); a closed page navigates nothing
Goto(ps, page, url) ==
    [n \in DOMAIN ps |-> IF ps[n].id = page THEN [ps[n] EXCEPT !.url = url] ELSE ps[n]]

\* browser = p.chromium.connect_over_cdp(cdp_url); context = browser.contexts[0]
FbConnect ==
    /\ fb_tab.pc = "start"
    /\ fb_tab' = [fb_tab EXCEPT !.pc = "connected"]
    /\ UNCHANGED <<service, pages, yt_tab, query>>
    /\ UNCHANGED extra

\* page = context.new_page()
FbNewPage ==
    /\ fb_tab.pc = "connected"
    /\ pages' = Append(pages, NewTab(pages))
    /\ fb_tab' = [fb_tab EXCEPT !.pc = "open", !.page = NewTab(pages).id]
    /\ UNCHANGED <<service, yt_tab, query>>
    /\ UNCHANGED extra

\* the try block: page.goto and the clicks and typing that create the page
FbDrive ==
    /\ fb_tab.pc = "open"
    /\ pages' = Goto(pages, fb_tab.page, "facebook.com")
    /\ fb_tab' = [fb_tab EXCEPT !.pc = "driven"]
    /\ UNCHANGED <<service, yt_tab, query>>
    /\ UNCHANGED extra

\* finally: page.close(), reached from the try block wherever it ended
FbClose ==
    /\ fb_tab.pc \in {"open", "driven"}
    /\ pages' = Without(pages, fb_tab.page)
    /\ fb_tab' = [fb_tab EXCEPT !.pc = "ended", !.page = NoPage]
    /\ UNCHANGED <<service, yt_tab, query>>
    /\ UNCHANGED extra

\* browser = p.chromium.connect_over_cdp(cdp_url); context = browser.contexts[0]
YtConnect ==
    /\ yt_tab.pc = "start"
    /\ yt_tab' = [yt_tab EXCEPT !.pc = "connected"]
    /\ UNCHANGED <<service, pages, fb_tab, query>>
    /\ UNCHANGED extra

\* the page selection: pages[1] if there are two tabs or more, else pages[0],
\* else a new page (Python indices from 0, sequence indices from 1)
YtSelectPage ==
    /\ yt_tab.pc = "connected"
    /\ IF Len(pages) > 1
       THEN yt_tab' = [yt_tab EXCEPT !.pc = "open", !.page = pages[2].id] /\ pages' = pages
       ELSE IF pages # <<>>
       THEN yt_tab' = [yt_tab EXCEPT !.pc = "open", !.page = pages[1].id] /\ pages' = pages
       ELSE /\ pages' = Append(pages, NewTab(pages))
            /\ yt_tab' = [yt_tab EXCEPT !.pc = "open", !.page = NewTab(pages).id]
    /\ UNCHANGED <<service, fb_tab, query>>
    /\ UNCHANGED extra

\* the try block: page.goto and the clicks and typing that create the channel;
\* on a page that was closed meanwhile they raise, which the except turns into
\* a failure result
YtDrive ==
    /\ yt_tab.pc = "open"
    /\ pages' = Goto(pages, yt_tab.page, "youtube.com")
    /\ yt_tab' = [yt_tab EXCEPT !.pc = "driven", !.lost = (yt_tab.page \notin TabIds(pages))]
    /\ UNCHANGED <<service, fb_tab, query>>
    /\ UNCHANGED extra

\* finally: the tab is sent back to youtube.com and stays open
YtFinish ==
    /\ yt_tab.pc \in {"open", "driven"}
    /\ pages' = Goto(pages, yt_tab.page, "youtube.com")
    /\ yt_tab' = [yt_tab EXCEPT !.pc = "ended", !.page = NoPage]
    /\ UNCHANGED <<service, fb_tab, query>>
    /\ UNCHANGED extra

\* both workers have ended; the threads of the next job start on the same Chrome
NextJobThreads ==
    /\ fb_tab.pc = "ended"
    /\ yt_tab.pc = "ended"
    /\ fb_tab' = NotConnected
    /\ yt_tab' = NotConnected
    /\ UNCHANGED <<service, pages, query>>
    /\ UNCHANGED extra

InitTabs ==
    /\ NoJobs
    /\ pages \in InitialPages
    /\ fb_tab = NotConnected
    /\ yt_tab = NotConnected
    /\ query = NoQuery
    /\ IdleExtra

NextTabs ==
    \/ FbConnect
    \/ FbNewPage
    \/ FbDrive
    \/ FbClose
    \/ YtConnect
    \/ YtSelectPage
    \/ YtDrive
    \/ YtFinish
    \/ NextJobThreads

SpecTabs == InitTabs /\ [][NextTabs]_vars

(***************************************************************************)
(* api/main.py: the bodies a POST /create-profiles may carry. FastAPI      *)
(* validates the body against CreateProfilesRequest before the handler     *)
(* runs: title is a required str, which any string satisfies.              *)
(***************************************************************************)
MaxRequests == 3

\* the title of a request body: one of the titles, the empty string, or no title
RequestTitles == Titles \cup {<<>>, NullText}

\* title: str
ValidRequest(title) == title # NullText

\* a body that fails validation is answered 422 and the handler is not called
RejectRequest(title) ==
    /\ Len(responses) < MaxRequests
    /\ ~ValidRequest(title)
    /\ responses' = Append(responses, [job_id |-> 0, status |-> "422", handles |-> None])
    /\ UNCHANGED <<profiles, clock, args, pc, fb_pc, yt_pc, fb_result, yt_result,
                   ig_result, job, task_calls, callbacks>>
    /\ UNCHANGED aux

\* a body that passes validation reaches the handler
AcceptRequest(title, callback_url) ==
    /\ Len(responses) < MaxRequests
    /\ ValidRequest(title)
    /\ create_profiles(title, callback_url)

NextSubmit ==
    \/ Tick
    \/ \E title \in RequestTitles : RejectRequest(title)
    \/ \E title \in RequestTitles, callback_url \in CallbackUrls :
          AcceptRequest(title, callback_url)

SpecSubmit == Init /\ [][NextSubmit]_vars

(***************************************************************************)
(* db/database.py: the store by itself. Every method of DB is public and   *)
(* takes the job id as an argument, so a caller may apply the update       *)
(* methods to a row in any order, with the results a task may return.      *)
(***************************************************************************)
MaxStoreRows == 1

MaxWarmupDay == 2

StoreStatuses == {"pending", "in_progress", "partial", "done", "failed"}

StoreCreate ==
    /\ Len(profiles) < MaxStoreRows
    /\ \E title \in Titles :
          profiles' = create_job(profiles, title, generate_handles(title, BRAND_PREFIX), clock)
    /\ UNCHANGED <<clock, args, pc, fb_pc, yt_pc, fb_result, yt_result, ig_result, job,
                   responses, task_calls, callbacks>>
    /\ UNCHANGED aux

\* one call of a method that records the outcome of a platform task
StorePlatformUpdate ==
    /\ \E j \in DOMAIN profiles :
         \/ \E r \in FBPageResults(profiles[j].handles_json.facebook.page_name) :
              profiles' = IF r.success
                          THEN update_fb(profiles, j, Or(r.page_id, ""), Or(r.page_url, ""),
                                         OrText(r.page_name, <<>>), clock)
                          ELSE fail_fb(profiles, j, Or(r.error, "Unknown error"), clock)
         \/ \E r \in YTChannelResults(profiles[j].handles_json.youtube.channel_name) :
              profiles' = IF r.success
                          THEN update_yt(profiles, j, Or(r.channel_id, ""),
                                         Or(r.channel_url, ""),
                                         OrText(r.channel_name, <<>>), r.handle, clock)
                          ELSE fail_yt(profiles, j, Or(r.error, "Unknown error"), clock)
         \/ \E r \in IGAccountResults(profiles[j].handles_json.instagram.handle_raw) :
              profiles' = IF r.success
                          THEN update_ig_created(profiles, j,
                                                 OrText(r.ig_username, <<>>),
                                                 Or(r.ig_password, ""), Or(r.phone_used, ""),
                                                 Or(r.device_id, ""), r.warmup_status, clock)
                          ELSE fail_ig(profiles, j, Or(r.error, "Unknown error"), clock)
    /\ UNCHANGED <<clock, args, pc, fb_pc, yt_pc, fb_result, yt_result, ig_result, job,
                   responses, task_calls, callbacks>>
    /\ UNCHANGED aux

\* one call of a method of the Instagram warmup
StoreWarmup ==
    /\ \E j \in DOMAIN profiles :
         \/ \E day \in 0..MaxWarmupDay :
              profiles' = update_ig_warmup_day(profiles, j, day, clock)
         \/ profiles' = mark_ig_ready(profiles, j, clock)
    /\ UNCHANGED <<clock, args, pc, fb_pc, yt_pc, fb_result, yt_result, ig_result, job,
                   responses, task_calls, callbacks>>
    /\ UNCHANGED aux

\* one call of a method that writes the overall status
StoreOverall ==
    /\ \E j \in DOMAIN profiles :
         \/ profiles' = mark_complete(profiles, j, clock)
         \/ profiles' = mark_failed(profiles, j, clock)
         \/ \E status \in StoreStatuses : profiles' = set_status(profiles, j, status, clock)
    /\ UNCHANGED <<clock, args, pc, fb_pc, yt_pc, fb_result, yt_result, ig_result, job,
                   responses, task_calls, callbacks>>
    /\ UNCHANGED aux

NextStore ==
    \/ Tick
    \/ StoreCreate
    \/ StorePlatformUpdate
    \/ StoreWarmup
    \/ StoreOverall

SpecStore == Init /\ [][NextStore]_vars

(***************************************************************************)
(* api/main.py: GET /status/{job_id}, served while the pipeline of the job *)
(* runs in its worker thread. The handler reads the row twice: get_job for *)
(* the 404 test, then summary, which makes its own get_job.                *)
(***************************************************************************)
MaxPolledJobs == 1

\* job ids a status request may name: those of the table and one that has no row
QueryIds == JobIds \cup {MaxJobs + 1}

\* the response built from the first read with the overall status of the
\* first read and the platforms of the second
get_status_response_mixed(first, table, job_id) ==
    [summary(table, job_id) EXCEPT !.status = first.status]

\* summary = db.summary(job_id); return StatusResponse(**summary)
get_status_response(first, table, job_id) == summary(table, job_id)

\* POST /create-profiles while fewer than MaxPolledJobs jobs exist
SubmitPolled(title, callback_url) ==
    /\ Len(profiles) < MaxPolledJobs
    /\ create_profiles(title, callback_url)

\* job = db.get_job(job_id)
QueryGetJob(job_id) ==
    /\ query.pc \in {"idle", "answered"}
    /\ query' = [pc |-> "read", job_id |-> job_id, job |-> get_job(profiles, job_id),
                 response |-> None, row |-> None]
    /\ UNCHANGED <<service, pages, fb_tab, yt_tab>>
    /\ UNCHANGED extra

\* if not job: raise HTTPException(status_code=404)
QueryNotFound ==
    /\ query.pc = "read"
    /\ query.job = None
    /\ query' = [query EXCEPT !.pc = "answered", !.response = [status_code |-> 404]]
    /\ UNCHANGED <<service, pages, fb_tab, yt_tab>>
    /\ UNCHANGED extra

\* the summary is read and returned; row keeps what the table held for the job
\* at the instant of this read
QuerySummary ==
    /\ query.pc = "read"
    /\ query.job # None
    /\ query' = [query EXCEPT !.pc = "answered",
                              !.response = get_status_response(query.job, profiles, query.job_id),
                              !.row = get_job(profiles, query.job_id)]
    /\ UNCHANGED <<service, pages, fb_tab, yt_tab>>
    /\ UNCHANGED extra

NextQuery ==
    \/ Tick
    \/ \E title \in Titles, callback_url \in CallbackUrls : SubmitPolled(title, callback_url)
    \/ \E j \in JobIds : RunStart(j)
    \/ \E j \in JobIds : FbReturn(j)
    \/ \E j \in JobIds : FbRaise(j)
    \/ \E j \in JobIds : FbRecord(j)
    \/ \E j \in JobIds : YtReturn(j)
    \/ \E j \in JobIds : YtRaise(j)
    \/ \E j \in JobIds : YtRecord(j)
    \/ \E j \in JobIds : Join(j)
    \/ \E j \in JobIds : IgReturn(j)
    \/ \E j \in JobIds : IgRecord(j)
    \/ \E j \in JobIds : ReadJob(j)
    \/ \E j \in JobIds : MarkOverall(j)
    \/ \E j \in JobIds : Callback(j)
    \/ \E job_id \in QueryIds : QueryGetJob(job_id)
    \/ QueryNotFound
    \/ QuerySummary

SpecQuery == Init /\ [][NextQuery]_vars

(***************************************************************************)
(* workers/naming_engine.py: generate_ig_handle called by itself, on any   *)
(* title and any brand prefix.                                             *)
(***************************************************************************)
MaxTitleLen == 2

\* characters of a title: a letter in either case, a digit, and characters the
\* handle rules exclude or restrict
TitleAlphabet == {"a", "K", "9", ".", "_", " "}

\* titles of up to MaxTitleLen characters, and one longer than a handle may be
NamingTitles ==
    UNION { [1..n -> TitleAlphabet] : n \in 0..MaxTitleLen }
    \cup { [n \in 1..(IgMaxLen + 2) |-> "k"] }

\* brand prefixes: the configured one in both cases, none, prefixes with dots,
\* and prefixes of IgMaxLen - 1 and of IgMaxLen characters
NamingPrefixes ==
    { <<"s","t","a","g","e">>, BRAND_PREFIX, <<>>, <<".">>, <<"s",".",".","t">>,
      <<"s","t","a","g","e",".","e","n","t","e","r","t","a","i","n","m","e","n","t",".","o","r","i","g","i","n","a","l","s">>,
      [n \in 1..IgMaxLen |-> "a"] }

InitNaming ==
    /\ NoJobs
    /\ pages = << [id |-> 1, url |-> "chrome://newtab"] >>
    /\ fb_tab = NotConnected
    /\ yt_tab = NotConnected
    /\ query = NoQuery
    /\ \E title \in NamingTitles, prefix \in NamingPrefixes :
          naming = [title |-> title, prefix |-> prefix, handle |-> NullText]
    /\ cli = NoCli
    /\ IdleWorkers

\* handle = generate_ig_handle(title, prefix)
CallGenerateIgHandle ==
    /\ naming.handle = NullText
    /\ naming' = [naming EXCEPT !.handle = generate_ig_handle(naming.title, naming.prefix)]
    /\ UNCHANGED <<service, pages, fb_tab, yt_tab, query, cli, workers>>

NextNaming == CallGenerateIgHandle

SpecNaming == InitNaming /\ [][NextNaming]_vars

(***************************************************************************)
(* api/main.py: the pipeline of one job whose platform tasks all succeed,  *)
(* each with any of the optional identifiers of its result left None.      *)
(***************************************************************************)
\* an optional field of a result: the value, or None
Optional(value) == {NULL, value}

\* an optional text field of a result: the value, or None
OptionalText(value) == {NullText, value}

\* FBPageResult(success=True, ...): every field but success is Optional
FBPageSuccesses(page_name) ==
    { [success |-> TRUE, page_id |-> page_id, page_name |-> name,
       page_url |-> page_url, error |-> NULL] :
        page_id \in Optional("1000123"), name \in OptionalText(page_name),
        page_url \in Optional("https://www.facebook.com/profile.php?id=1000123") }

\* YTChannelResult(success=True, ...): every field but success is Optional
YTChannelSuccesses(channel_name) ==
    { [success |-> TRUE, channel_id |-> channel_id, channel_name |-> name,
       channel_url |-> channel_url, handle |-> handle, error |-> NULL] :
        channel_id \in Optional("UCabc"), name \in OptionalText(channel_name),
        channel_url \in Optional("https://www.youtube.com/channel/UCabc"),
        handle \in Optional("@stagekota") }

\* IGAccountResult(success=True, ...): every field but success and
\* warmup_status is Optional
IGAccountSuccesses(ig_handle) ==
    { [success |-> TRUE, ig_handle |-> handle, ig_username |-> username,
       ig_password |-> ig_password, phone_used |-> phone_used,
       device_id |-> device_id, warmup_status |-> "warming_up", error |-> NULL] :
        handle \in OptionalText(<<"@">> \o ig_handle),
        username \in OptionalText(ig_handle), ig_password \in Optional("Pw#1"),
        phone_used \in Optional("+91700"), device_id \in Optional("dev-1") }

\* run_fb: create_facebook_page returns success
FbSucceed(j) ==
    /\ fb_pc[j] = "running"
    /\ \E result \in FBPageSuccesses(args[j].handles.fb_page_name) :
          fb_result' = [fb_result EXCEPT ![j] = result]
    /\ fb_pc' = [fb_pc EXCEPT ![j] = "returned"]
    /\ task_calls' = [task_calls EXCEPT ![j] = @ \cup {"facebook"}]
    /\ UNCHANGED <<profiles, clock, args, pc, yt_pc, yt_result, ig_result, job,
                   responses, callbacks>>
    /\ UNCHANGED aux

\* run_yt: create_youtube_channel returns success
YtSucceed(j) ==
    /\ yt_pc[j] = "running"
    /\ \E result \in YTChannelSuccesses(args[j].handles.yt_channel_name) :
          yt_result' = [yt_result EXCEPT ![j] = result]
    /\ yt_pc' = [yt_pc EXCEPT ![j] = "returned"]
    /\ task_calls' = [task_calls EXCEPT ![j] = @ \cup {"youtube"}]
    /\ UNCHANGED <<profiles, clock, args, pc, fb_pc, fb_result, ig_result, job,
                   responses, callbacks>>
    /\ UNCHANGED aux

\* ig_result = create_instagram_account(...) returns success
IgSucceed(j) ==
    /\ pc[j] = "ig"
    /\ \E result \in IGAccountSuccesses(args[j].handles.ig_handle) :
          ig_result' = [ig_result EXCEPT ![j] = result]
    /\ pc' = [pc EXCEPT ![j] = "ig_returned"]
    /\ task_calls' = [task_calls EXCEPT ![j] = @ \cup {"instagram"}]
    /\ UNCHANGED <<profiles, clock, args, fb_pc, yt_pc, fb_result, yt_result, job,
                   responses, callbacks>>
    /\ UNCHANGED aux

NextPartial ==
    \/ \E title \in Titles, callback_url \in CallbackUrls :
          SubmitPolled(title, callback_url)
    \/ \E j \in JobIds : RunStart(j)
    \/ \E j \in JobIds : FbSucceed(j)
    \/ \E j \in JobIds : FbRecord(j)
    \/ \E j \in JobIds : YtSucceed(j)
    \/ \E j \in JobIds : YtRecord(j)
    \/ \E j \in JobIds : Join(j)
    \/ \E j \in JobIds : IgSucceed(j)
    \/ \E j \in JobIds : IgRecord(j)
    \/ \E j \in JobIds : ReadJob(j)
    \/ \E j \in JobIds : MarkOverall(j)
    \/ \E j \in JobIds : Callback(j)

SpecPartial == Init /\ [][NextPartial]_vars

(***************************************************************************)
(* scripts/create_profiles.py: one run of the command-line script, which   *)
(* creates a job and runs the selected platform tasks one after another.   *)
(***************************************************************************)
\* choices of --only
OnlyChoices == {"fb", "yt", "ig", "naming"}

\* default of --only
OnlyDefault == {"fb", "yt", "ig"}

\* what the command line gives for --only: one choice or more (nargs="+"), or
\* {} when the option is absent
OnlyArgs == SUBSET OnlyChoices

\* what the rest of the model leaves alone during a run of the script
besides_cli == <<clock, args, pc, fb_pc, yt_pc, fb_result, yt_result, ig_result, job,
                 responses, callbacks, pages, fb_tab, yt_tab, query, naming, workers>>

\* main() up to db.create_job: parse_args, generate_handles, the dry-run return
CliMain(title, only_arg, dry_run) ==
    /\ cli.pc = "start"
    /\ LET only    == IF only_arg = {} THEN OnlyDefault ELSE only_arg
           handles == generate_handles(title, BRAND_PREFIX)
           parsed  == [cli EXCEPT !.only = only, !.given = (only_arg # {}),
                                  !.dry_run = dry_run, !.handles = handles]
       IN  IF dry_run \/ "naming" \in only
           THEN /\ cli' = [parsed EXCEPT !.pc = "returned"]
                /\ profiles' = profiles
           ELSE /\ Len(profiles) < MaxJobs
                /\ profiles' = create_job(profiles, title, handles, clock)
                /\ cli' = [parsed EXCEPT !.pc = "fb", !.job_id = Len(profiles')]
    /\ UNCHANGED <<task_calls, besides_cli>>

\* Step 3: if "fb" in args.only, create_facebook_page and update_fb / fail_fb
CliFb ==
    /\ cli.pc = "fb"
    /\ IF "fb" \in cli.only
       THEN \E fb \in FBPageResults(cli.handles.fb_page_name) :
              /\ task_calls' = [task_calls EXCEPT ![cli.job_id] = @ \cup {"facebook"}]
              /\ profiles' =
                   IF fb.success
                   THEN update_fb(profiles, cli.job_id, Or(fb.page_id, ""),
                                  Or(fb.page_url, ""), OrText(fb.page_name, <<>>), clock)
                   ELSE fail_fb(profiles, cli.job_id, Or(fb.error, "Unknown"), clock)
       ELSE UNCHANGED <<task_calls, profiles>>
    /\ cli' = [cli EXCEPT !.pc = "yt"]
    /\ UNCHANGED besides_cli

\* Step 4: if "yt" in args.only, create_youtube_channel and update_yt / fail_yt
CliYt ==
    /\ cli.pc = "yt"
    /\ IF "yt" \in cli.only
       THEN \E yt \in YTChannelResults(cli.handles.yt_channel_name) :
              /\ task_calls' = [task_calls EXCEPT ![cli.job_id] = @ \cup {"youtube"}]
              /\ profiles' =
                   IF yt.success
                   THEN update_yt(profiles, cli.job_id, Or(yt.channel_id, ""),
                                  Or(yt.channel_url, ""),
                                  OrText(yt.channel_name, <<>>), yt.handle, clock)
                   ELSE fail_yt(profiles, cli.job_id, Or(yt.error, "Unknown"), clock)
       ELSE UNCHANGED <<task_calls, profiles>>
    /\ cli' = [cli EXCEPT !.pc = "ig"]
    /\ UNCHANGED besides_cli

\* Steps 3 and 4: the selected task raises (connect_over_cdp and new_page run
\* outside the workers' try blocks) and the script ends with the exception
CliRaise ==
    /\ \/ cli.pc = "fb" /\ "fb" \in cli.only
          /\ task_calls' = [task_calls EXCEPT ![cli.job_id] = @ \cup {"facebook"}]
       \/ cli.pc = "yt" /\ "yt" \in cli.only
          /\ task_calls' = [task_calls EXCEPT ![cli.job_id] = @ \cup {"youtube"}]
    /\ cli' = [cli EXCEPT !.pc = "raised"]
    /\ UNCHANGED <<profiles, besides_cli>>

\* Step 5 run whatever --only says
CliIg_unconditional ==
    /\ cli.pc = "ig"
    /\ \E ig \in IGAccountResults(cli.handles.ig_handle) :
          /\ task_calls' = [task_calls EXCEPT ![cli.job_id] = @ \cup {"instagram"}]
          /\ profiles' =
               IF ig.success
               THEN update_ig_created(profiles, cli.job_id,
                                      OrText(ig.ig_username, cli.handles.ig_handle),
                                      Or(ig.ig_password, ""), Or(ig.phone_used, ""),
                                      Or(ig.device_id, ""), ig.warmup_status, clock)
               ELSE fail_ig(profiles, cli.job_id, Or(ig.error, "Unknown"), clock)
    /\ cli' = [cli EXCEPT !.pc = "summary"]
    /\ UNCHANGED besides_cli

\* Step 5: if "ig" in args.only, create_instagram_account and
\* update_ig_created / fail_ig
CliIg ==
    /\ cli.pc = "ig"
    /\ IF "ig" \in cli.only
       THEN \E ig \in IGAccountResults(cli.handles.ig_handle) :
              /\ task_calls' = [task_calls EXCEPT ![cli.job_id] = @ \cup {"instagram"}]
              /\ profiles' =
                   IF ig.success
                   THEN update_ig_created(profiles, cli.job_id,
                                          OrText(ig.ig_username, cli.handles.ig_handle),
                                          Or(ig.ig_password, ""), Or(ig.phone_used, ""),
                                          Or(ig.device_id, ""), ig.warmup_status, clock)
                   ELSE fail_ig(profiles, cli.job_id, Or(ig.error, "Unknown"), clock)
       ELSE UNCHANGED <<task_calls, profiles>>
    /\ cli' = [cli EXCEPT !.pc = "summary"]
    /\ UNCHANGED besides_cli

\* Step 6: summary = db.summary(job_id) is printed and main() returns
CliSummary ==
    /\ cli.pc = "summary"
    /\ cli' = [cli EXCEPT !.pc = "returned", !.summary = summary(profiles, cli.job_id)]
    /\ UNCHANGED <<profiles, task_calls, besides_cli>>

NextCli ==
    \/ \E title \in Titles, only_arg \in OnlyArgs, dry_run \in BOOLEAN :
          CliMain(title, only_arg, dry_run)
    \/ CliFb
    \/ CliYt
    \/ CliRaise
    \/ CliIg
    \/ CliSummary

SpecCli == Init /\ [][NextCli]_vars

(***************************************************************************)
(* workers/instagram_worker.py and workers/otp_service.py: one call of     *)
(* create_instagram_account, with the get_instagram_otp call it makes.     *)
(* The cloud phone, the OTP service and Instagram are the environment:     *)
(* every call to them returns one of the answers the code distinguishes,   *)
(* or raises.                                                              *)
(***************************************************************************)
\* wait_for_device_ready(device_id, max_wait=120)
DeviceMaxWait == 120

\* time.sleep(5) between two polls of the device
DevicePollSeconds == 5

\* get_instagram_otp(..., poll_interval=10, max_wait=300), called with the defaults
OtpPollInterval == 10

OtpMaxWait == 300

\* range(max_wait // 5)
DeviceAttempts == DeviceMaxWait \div DevicePollSeconds

\* attempts = max_wait // poll_interval
OtpAttempts == OtpMaxWait \div OtpPollInterval

\* OTP_SERVICE of config/settings.py: one of the two services, or anything else
OtpServices == {"smsman", "fivesim", "other"}

\* what a call of create_instagram_account leaves alone
besides_ig == <<service, pages, fb_tab, yt_tab, query, naming, cli, fb_work, yt_work,
                yt_tab2>>

\* IGAccountResult(success=False, ...) and the return
IgFail(work, phone, error) ==
    [work EXCEPT !.pc = "returned",
                 !.result = [success |-> FALSE, phone_used |-> phone,
                             warmup_status |-> "not_started", error |-> error]]

\* Step 1: geelark.create_device returns a device id, returns none, or raises
IgCreateDevice ==
    /\ ig_work.pc = "start"
    /\ \E answer \in {"device", "no_id", "raise"} :
          ig_work' = CASE answer = "device" -> [ig_work EXCEPT !.pc = "device_wait"]
                       [] answer = "no_id"  -> IgFail(ig_work, NULL, "GeeLark device creation failed")
                       [] OTHER             -> IgFail(ig_work, NULL, "create_device raised")
    /\ UNCHANGED besides_ig

\* wait_for_device_ready: one pass of the loop. get_device answers a running
\* status (return True, which ends the count of passes), another status, or
\* raises (logged)
IgDevicePoll ==
    /\ ig_work.pc = "device_wait"
    /\ ig_work.device_polls < DeviceAttempts
    /\ \E answer \in {"running", "booting", "raise"} :
          ig_work' = IF answer = "running"
                     THEN [ig_work EXCEPT !.device_polls = 0, !.pc = "connect"]
                     ELSE [ig_work EXCEPT !.device_polls = @ + 1]
    /\ UNCHANGED besides_ig

\* wait_for_device_ready: the loop is exhausted, return False; Step 2 returns
\* the failure
IgDeviceTimeout ==
    /\ ig_work.pc = "device_wait"
    /\ ig_work.device_polls >= DeviceAttempts
    /\ ig_work' = IgFail(ig_work, NULL, "GeeLark device did not become ready within 2 minutes")
    /\ UNCHANGED besides_ig

\* Steps 3 to 5: install_app, get_device, _adb_connect
IgConnectAdb ==
    /\ ig_work.pc = "connect"
    /\ \E answer \in {"connected", "no_adb_ip", "adb_failed", "raise"} :
          ig_work' = CASE answer = "connected"  -> [ig_work EXCEPT !.pc = "otp"]
                       [] answer = "no_adb_ip"  -> IgFail(ig_work, NULL, "Could not get ADB connection info from GeeLark")
                       [] answer = "adb_failed" -> IgFail(ig_work, NULL, "ADB connection failed")
                       [] OTHER                 -> IgFail(ig_work, NULL, "install_app raised")
    /\ UNCHANGED besides_ig

\* OTPResult(success=False, error=...) and the return of get_instagram_otp
OtpFail(work, phone, error) ==
    [work EXCEPT !.pc = "otp_returned",
                 !.otp_result = [success |-> FALSE, phone |-> phone, otp |-> NULL,
                                 request_id |-> NULL, error |-> error]]

\* get_instagram_otp up to client.get_number: the service leases a number, or
\* get_number raises (request_id is still None in the except block), or the
\* service name is neither smsman nor fivesim
OtpGetNumber ==
    /\ ig_work.pc = "otp"
    /\ IF ig_work.service \notin {"smsman", "fivesim"}
       THEN ig_work' = OtpFail(ig_work, NULL, "Unknown OTP service")
       ELSE \E answer \in {"number", "raise"} :
              ig_work' = IF answer = "number"
                         THEN [ig_work EXCEPT !.pc = "otp_wait", !.request_id = "req-1"]
                         ELSE OtpFail(ig_work, NULL, "get_number raised")
    /\ UNCHANGED besides_ig

\* Instagram sends the SMS with the code to the leased number: in answer to the
\* signup form, or, where numbers are reused, at any time
InstagramSendsSms ==
    /\ ig_work.request_id # NULL
    /\ ig_work.pc \notin {"otp_returned", "returned"}
    /\ ~ig_work.sms_sent
    /\ ig_work.phone_entered \/ ~ig_work.sms_on_submit
    /\ ig_work' = [ig_work EXCEPT !.sms_sent = TRUE]
    /\ UNCHANGED besides_ig

\* what one poll of the service may answer. SMS-Man: the code, or an error_code
\* (wait_sms included), on which _get raises. 5sim: RECEIVED with the code, a
\* status that is still open, CANCELED / TIMEOUT / BANNED, or the request raises
PollAnswers(work) ==
    (IF work.sms_sent THEN {"code"} ELSE {}) \cup {"raise"}
    \cup (IF work.service = "fivesim" THEN {"pending", "ended"} ELSE {})

\* wait_for_otp: one pass of the loop
OtpPoll ==
    /\ ig_work.pc = "otp_wait"
    /\ ig_work.otp_polls < OtpAttempts
    /\ \E answer \in PollAnswers(ig_work) :
          ig_work' = CASE answer = "code"  -> [ig_work EXCEPT !.otp_polls = @ + 1,
                                                              !.otp = "123456",
                                                              !.pc = "otp_settle"]
                       [] answer = "ended" -> [ig_work EXCEPT !.otp_polls = @ + 1,
                                                              !.pc = "otp_settle"]
                       [] OTHER            -> [ig_work EXCEPT !.otp_polls = @ + 1]
    /\ UNCHANGED besides_ig

\* wait_for_otp: the loop is exhausted, return None
OtpTimeout ==
    /\ ig_work.pc = "otp_wait"
    /\ ig_work.otp_polls >= OtpAttempts
    /\ ig_work' = [ig_work EXCEPT !.pc = "otp_settle"]
    /\ UNCHANGED besides_ig

\* get_instagram_otp returning the failure result without client.cancel
OtpSettle_without_cancel ==
    /\ ig_work.pc = "otp_settle"
    /\ ig_work' =
         IF ig_work.otp # NULL
         THEN [ig_work EXCEPT !.pc = "otp_returned", !.confirms = @ + 1,
                              !.otp_result = [success |-> TRUE, phone |-> "+91700",
                                              otp |-> ig_work.otp,
                                              request_id |-> ig_work.request_id,
                                              error |-> NULL]]
         ELSE OtpFail(ig_work, "+91700", "OTP not received within timeout")
    /\ UNCHANGED besides_ig

\* get_instagram_otp after wait_for_otp returned: if otp, client.confirm and
\* the success result; else client.cancel and the failure result
OtpSettle ==
    /\ ig_work.pc = "otp_settle"
    /\ ig_work' =
         IF ig_work.otp # NULL
         THEN [ig_work EXCEPT !.pc = "otp_returned", !.confirms = @ + 1,
                              !.otp_result = [success |-> TRUE, phone |-> "+91700",
                                              otp |-> ig_work.otp,
                                              request_id |-> ig_work.request_id,
                                              error |-> NULL]]
         ELSE [OtpFail(ig_work, "+91700", "OTP not received within timeout")
                 EXCEPT !.cancels = @ + 1]
    /\ UNCHANGED besides_ig

\* Step 6 after get_instagram_otp returned: without success or without a phone
\* the task returns the failure
IgOtpResult ==
    /\ ig_work.pc = "otp_returned"
    /\ ig_work' =
         IF ~ig_work.otp_result.success \/ ig_work.otp_result.phone = NULL
         THEN IgFail(ig_work, NULL, "OTP number acquisition failed")
         ELSE [ig_work EXCEPT !.pc = "signup"]
    /\ UNCHANGED besides_ig

\* Step 7 up to the phone number: _get_appium_driver, and _signup_instagram
\* types the phone number and taps Next; a raise ends the signup
IgEnterPhone ==
    /\ ig_work.pc = "signup"
    /\ \E answer \in {"entered", "raise"} :
          ig_work' = IF answer = "entered"
                     THEN [ig_work EXCEPT !.pc = "signup_otp", !.phone_entered = TRUE]
                     ELSE IgFail(ig_work, ig_work.otp_result.phone, "signup raised")
    /\ UNCHANGED besides_ig

\* the rest of _signup_instagram: otp = otp_getter(), which returns the code
\* get_instagram_otp has already received; the code and the other fields are
\* typed, and the signup ends in success or a raise
IgFinishSignup ==
    /\ ig_work.pc = "signup_otp"
    /\ \E answer \in {"signed_up", "raise"} :
          ig_work' = IF answer = "signed_up"
                     THEN [ig_work EXCEPT !.pc = "warmup"]
                     ELSE IgFail(ig_work, ig_work.otp_result.phone, "signup raised")
    /\ UNCHANGED besides_ig

\* Step 8: trigger_warmup returns or raises; either way the result is success
IgTriggerWarmup ==
    /\ ig_work.pc = "warmup"
    /\ \E warmup_status \in {"warming_up", "warmup_trigger_failed"} :
          ig_work' = [ig_work EXCEPT !.pc = "returned",
                                     !.result = [success |-> TRUE,
                                                 phone_used |-> ig_work.otp_result.phone,
                                                 warmup_status |-> warmup_status,
                                                 error |-> NULL]]
    /\ UNCHANGED besides_ig

\* the configuration of the task and the kind of environment it runs in
InitWorkers ==
    /\ NoJobs
    /\ pages \in InitialPages
    /\ fb_tab = NotConnected
    /\ yt_tab = NotConnected
    /\ query = NoQuery
    /\ naming = NoNaming
    /\ cli = NoCli
    /\ fb_work = NoRedirectWait
    /\ yt_work = NoRedirectWait
    /\ yt_tab2 = NotConnected
    /\ \E otp_service \in OtpServices, sms_on_submit \in BOOLEAN :
          ig_work = [NoIgWork EXCEPT !.service = otp_service,
                                     !.sms_on_submit = sms_on_submit]

NextIg ==
    \/ IgCreateDevice
    \/ IgDevicePoll
    \/ IgDeviceTimeout
    \/ IgConnectAdb
    \/ OtpGetNumber
    \/ InstagramSendsSms
    \/ OtpPoll
    \/ OtpTimeout
    \/ OtpSettle
    \/ IgOtpResult
    \/ IgEnterPhone
    \/ IgFinishSignup
    \/ IgTriggerWarmup

SpecIg == InitWorkers /\ [][NextIg]_vars

(***************************************************************************)
(* workers/facebook_worker.py and workers/youtube_worker.py: the try       *)
(* blocks of the two workers at the level of the URL the worker's tab      *)
(* shows.  Facebook and YouTube are the environment: after the click that  *)
(* submits a form the site navigates the tab, at a time of its own.        *)
(***************************************************************************)
\* for _ in range(30) of the Facebook redirect wait
FbRedirectPolls == 30

\* for _ in range(30) of the YouTube redirect wait
YtRedirectPolls == 30

\* page.url: the URL the tab shows; of a tab that was closed, the last URL the
\* worker saw
UrlOf(ps, page, last) ==
    IF page \in TabIds(ps) THEN ps[CHOOSE n \in DOMAIN ps : ps[n].id = page].url ELSE last

\* "pages/create" not in current_url and "facebook.com" in current_url
FbRedirected(current_url) ==
    current_url \in {"facebook.com", "facebook.com/StageKota", "facebook.com/checkpoint"}

\* "create_channel" not in current_url and "channel_switcher" not in current_url
\* and "youtube.com" in current_url
YtRedirected(current_url) ==
    current_url \in {"youtube.com", "youtube.com/channel/UCabc"}

\* a worker leaves its redirect wait with a result
WaitResult(result) == [polls |-> 0, current_url |-> NULL, result |-> result]

\* Steps 1 to 7: goto facebook.com, goto pages/create, the form is filled and
\* Create Page is clicked; or a step finds the session expired or no element,
\* or raises, and the worker returns a failure
FbFillForm ==
    /\ fb_tab.pc = "open"
    /\ \E answer \in {"clicked", "failed"} :
          IF answer = "clicked"
          THEN /\ pages' = Goto(pages, fb_tab.page, "facebook.com/pages/create")
               /\ fb_tab' = [fb_tab EXCEPT !.pc = "waiting"]
               /\ fb_work' = fb_work
          ELSE /\ pages' = Goto(pages, fb_tab.page, "facebook.com")
               /\ fb_tab' = [fb_tab EXCEPT !.pc = "driven"]
               /\ fb_work' = WaitResult([success |-> FALSE, page_id |-> NULL,
                                         page_url |-> NULL, error |-> "Step failed"])
    /\ UNCHANGED <<service, yt_tab, query, naming, cli, ig_work, yt_work, yt_tab2>>

\* Facebook answers the click: the tab that shows the creation form is sent to
\* the new page, or to a checkpoint
FacebookRedirects ==
    /\ fb_tab.pc = "waiting"
    /\ UrlOf(pages, fb_tab.page, NULL) = "facebook.com/pages/create"
    /\ \E url \in {"facebook.com/StageKota", "facebook.com/checkpoint"} :
          pages' = Goto(pages, fb_tab.page, url)
    /\ UNCHANGED <<service, fb_tab, yt_tab, query, naming, cli, workers>>

\* the redirect wait as a while True loop
FbPoll_unbounded ==
    /\ fb_tab.pc = "waiting"
    /\ LET current_url == UrlOf(pages, fb_tab.page, fb_work.current_url)
       IN  IF FbRedirected(current_url)
           THEN /\ fb_tab' = [fb_tab EXCEPT !.pc = "redirected"]
                /\ fb_work' = [fb_work EXCEPT !.polls = 0, !.current_url = current_url]
           ELSE /\ fb_tab' = fb_tab
                /\ fb_work' = [fb_work EXCEPT !.polls = @ + 1, !.current_url = current_url]
    /\ UNCHANGED <<service, pages, yt_tab, query, naming, cli, ig_work, yt_work, yt_tab2>>

\* Step 8: one pass of the redirect wait
FbPoll ==
    /\ fb_tab.pc = "waiting"
    /\ fb_work.polls < FbRedirectPolls
    /\ LET current_url == UrlOf(pages, fb_tab.page, fb_work.current_url)
       IN  IF FbRedirected(current_url)
           THEN /\ fb_tab' = [fb_tab EXCEPT !.pc = "redirected"]
                /\ fb_work' = [fb_work EXCEPT !.polls = 0, !.current_url = current_url]
           ELSE /\ fb_tab' = fb_tab
                /\ fb_work' = [fb_work EXCEPT !.polls = @ + 1, !.current_url = current_url]
    /\ UNCHANGED <<service, pages, yt_tab, query, naming, cli, ig_work, yt_work, yt_tab2>>

\* Step 8: the else of the for loop
FbRedirectTimeout ==
    /\ fb_tab.pc = "waiting"
    /\ fb_work.polls >= FbRedirectPolls
    /\ fb_tab' = [fb_tab EXCEPT !.pc = "driven"]
    /\ fb_work' = WaitResult([success |-> FALSE, page_id |-> NULL, page_url |-> NULL,
                              error |-> "Timed out waiting for redirect after Create Page click"])
    /\ UNCHANGED <<service, pages, yt_tab, query, naming, cli, ig_work, yt_work, yt_tab2>>

\* after the wait: _delay(2.0, 4.0), current_url = page.url read again, Step 9
\* (checkpoint) and Step 10: the page id is extracted or not, page_url is
\* current_url either way
FbExtract ==
    /\ fb_tab.pc = "redirected"
    /\ LET current_url == UrlOf(pages, fb_tab.page, fb_work.current_url)
       IN  IF current_url = "facebook.com/checkpoint"
           THEN fb_work' = WaitResult([success |-> FALSE, page_id |-> NULL,
                                       page_url |-> NULL,
                                       error |-> "Facebook checkpoint triggered"])
           ELSE \E page_id \in Optional("1000123") :
                   fb_work' = WaitResult([success |-> TRUE, page_id |-> page_id,
                                          page_url |-> current_url, error |-> NULL])
    /\ fb_tab' = [fb_tab EXCEPT !.pc = "driven"]
    /\ UNCHANGED <<service, pages, yt_tab, query, naming, cli, ig_work, yt_work, yt_tab2>>

\* Steps 1 to 7: goto youtube.com, goto create_channel, the name is typed and
\* Create channel is clicked; or a step finds no session or no element, or
\* raises (as page.goto does on a page that was closed meanwhile), and the
\* worker returns a failure
YtFillForm ==
    /\ yt_tab.pc = "open"
    /\ \E answer \in {"clicked", "failed"} :
          IF answer = "clicked" /\ yt_tab.page \in TabIds(pages)
          THEN /\ pages' = Goto(pages, yt_tab.page, "youtube.com/create_channel")
               /\ yt_tab' = [yt_tab EXCEPT !.pc = "waiting"]
               /\ yt_work' = [yt_work EXCEPT !.current_url = "youtube.com/create_channel"]
          ELSE /\ pages' = Goto(pages, yt_tab.page, "youtube.com")
               /\ yt_tab' = [yt_tab EXCEPT !.pc = "driven",
                                           !.lost = (yt_tab.page \notin TabIds(pages))]
               /\ yt_work' = WaitResult([success |-> FALSE, channel_id |-> NULL,
                                         channel_url |-> NULL, error |-> "Step failed"])
    /\ UNCHANGED <<service, fb_tab, query, naming, cli, ig_work, fb_work, yt_tab2>>

\* YouTube answers the click: the tab that shows the creation form is sent to
\* the new channel
YouTubeRedirects ==
    /\ yt_tab.pc = "waiting"
    /\ UrlOf(pages, yt_tab.page, NULL) = "youtube.com/create_channel"
    /\ pages' = Goto(pages, yt_tab.page, "youtube.com/channel/UCabc")
    /\ UNCHANGED <<service, fb_tab, yt_tab, query, naming, cli, workers>>

\* Step 8: one pass of the redirect wait
YtPoll ==
    /\ yt_tab.pc = "waiting"
    /\ yt_work.polls < YtRedirectPolls
    /\ LET current_url == UrlOf(pages, yt_tab.page, yt_work.current_url)
       IN  IF YtRedirected(current_url)
           THEN /\ yt_tab' = [yt_tab EXCEPT !.pc = "redirected"]
                /\ yt_work' = [yt_work EXCEPT !.polls = 0, !.current_url = current_url]
           ELSE /\ yt_tab' = yt_tab
                /\ yt_work' = [yt_work EXCEPT !.polls = @ + 1, !.current_url = current_url]
    /\ UNCHANGED <<service, pages, fb_tab, query, naming, cli, ig_work, fb_work, yt_tab2>>

\* Step 8: the else of the for loop
YtRedirectTimeout ==
    /\ yt_tab.pc = "waiting"
    /\ yt_work.polls >= YtRedirectPolls
    /\ yt_tab' = [yt_tab EXCEPT !.pc = "driven"]
    /\ yt_work' = WaitResult([success |-> FALSE, channel_id |-> NULL, channel_url |-> NULL,
                              error |-> "Timed out waiting for redirect after channel creation"])
    /\ UNCHANGED <<service, pages, fb_tab, query, naming, cli, ig_work, fb_work, yt_tab2>>

\* after the wait: current_url = page.url and content = page.content(), which
\* raises on a closed page; Step 9: the channel id is extracted or not, and
\* channel_url is built from the id, or is current_url
YtExtract ==
    /\ yt_tab.pc = "redirected"
    /\ LET current_url == UrlOf(pages, yt_tab.page, yt_work.current_url)
       IN  IF yt_tab.page \notin TabIds(pages)
           THEN yt_work' = WaitResult([success |-> FALSE, channel_id |-> NULL,
                                       channel_url |-> NULL, error |-> "page closed"])
           ELSE \E channel_id \in Optional("UCabc") :
                   yt_work' = WaitResult([success |-> TRUE, channel_id |-> channel_id,
                                          channel_url |-> IF channel_id # NULL
                                                          THEN "youtube.com/channel/UCabc"
                                                          ELSE current_url,
                                          error |-> NULL])
    /\ yt_tab' = [yt_tab EXCEPT !.pc = "driven",
                                !.lost = (yt_tab.page \notin TabIds(pages))]
    /\ UNCHANGED <<service, pages, fb_tab, query, naming, cli, ig_work, fb_work, yt_tab2>>

\* fb_thread.join(); yt_thread.join() of the pipeline: both workers have ended
ThreadsJoined == fb_tab.pc = "ended" /\ yt_tab.pc = "ended"

NextWorkers ==
    \/ FbConnect
    \/ FbNewPage
    \/ FbFillForm
    \/ FacebookRedirects
    \/ FbPoll
    \/ FbRedirectTimeout
    \/ FbExtract
    \/ FbClose
    \/ YtConnect
    \/ YtSelectPage
    \/ YtFillForm
    \/ YouTubeRedirects
    \/ YtPoll
    \/ YtRedirectTimeout
    \/ YtExtract
    \/ YtFinish
    \/ ThreadsJoined /\ IgCreateDevice
    \/ IgDevicePoll
    \/ IgDeviceTimeout
    \/ IgConnectAdb
    \/ OtpGetNumber
    \/ InstagramSendsSms
    \/ OtpPoll
    \/ OtpTimeout
    \/ OtpSettle
    \/ IgOtpResult
    \/ IgEnterPhone
    \/ IgFinishSignup
    \/ IgTriggerWarmup

SpecWorkers == InitWorkers /\ [][NextWorkers]_vars

(***************************************************************************)
(* api/main.py: two jobs whose pipelines run at the same time.  Each job's *)
(* threads call the workers with the same cdp_url; beside the two workers  *)
(* of the first job runs create_youtube_channel of the second.             *)
(***************************************************************************)
\* one step of create_youtube_channel by a worker w on the tabs ps: connect,
\* the page selection, the try block, the finally
YtWorkerStep(w, w_next, ps, ps_next) ==
    \/ /\ w.pc = "start"
       /\ w_next = [w EXCEPT !.pc = "connected"]
       /\ ps_next = ps
    \/ /\ w.pc = "connected"
       /\ IF Len(ps) > 1
          THEN w_next = [w EXCEPT !.pc = "open", !.page = ps[2].id] /\ ps_next = ps
          ELSE IF ps # <<>>
          THEN w_next = [w EXCEPT !.pc = "open", !.page = ps[1].id] /\ ps_next = ps
          ELSE /\ ps_next = Append(ps, NewTab(ps))
               /\ w_next = [w EXCEPT !.pc = "open", !.page = NewTab(ps).id]
    \/ /\ w.pc = "open"
       /\ ps_next = Goto(ps, w.page, "youtube.com")
       /\ w_next = [w EXCEPT !.pc = "driven", !.lost = (w.page \notin TabIds(ps))]
    \/ /\ w.pc \in {"open", "driven"}
       /\ ps_next = Goto(ps, w.page, "youtube.com")
       /\ w_next = [w EXCEPT !.pc = "ended", !.page = NoPage]

\* run_yt of the second job: a step of its create_youtube_channel
YtOfSecondJob ==
    /\ YtWorkerStep(yt_tab2, yt_tab2', pages, pages')
    /\ UNCHANGED <<service, fb_tab, yt_tab, query, naming, cli, ig_work, fb_work, yt_work>>

NextTwoJobs ==
    \/ FbConnect
    \/ FbNewPage
    \/ FbDrive
    \/ FbClose
    \/ YtConnect
    \/ YtSelectPage
    \/ YtDrive
    \/ YtFinish
    \/ YtOfSecondJob

SpecTwoJobs == InitTabs /\ [][NextTwoJobs]_vars

(***************************************************************************)
(* Properties.                                                             *)
(***************************************************************************)
Last(seq) == seq[Len(seq)]

RowsWithSlug(slug) == {i \in DOMAIN profiles : profiles[i].slug = slug}

SucceededSet == {"done", "warming_up", "ready"}

OpenSet == {"pending", "in_progress"}

PlatformStatuses(row) == <<row.fb_status, row.yt_status, row.ig_status>>

AnyIn(row, set) == \E n \in 1..3 : PlatformStatuses(row)[n] \in set

AllIn(row, set) == \A n \in 1..3 : PlatformStatuses(row)[n] \in set

\* the pipeline of job j is past its "Mark overall job status" block
Aggregated(j) == pc[j] \in {"callback", "finished"}

\* C1: two submit requests with the same slug, the second made while the job of
\* the first has not completed, are answered with the same job_id and leave
\* exactly one row for that slug.
C1_IdempotentSubmission ==
    \A a, b \in DOMAIN responses :
        ( /\ a < b
          /\ responses[a].handles.slug = responses[b].handles.slug
          /\ pc[responses[a].job_id] # "finished" )
        => /\ responses[a].job_id = responses[b].job_id
           /\ Cardinality(RowsWithSlug(responses[a].handles.slug)) = 1

\* C2: a submit for a slug whose job already has overall status done answers with
\* the existing job_id, adds no row and schedules no pipeline (so no platform task
\* runs a second time for that slug).
C2_ResubmitAfterDone ==
    [][ \A i \in DOMAIN profiles :
          ( /\ profiles[i].status = "done"
            /\ Len(responses') = Len(responses) + 1
            /\ Last(responses').handles.slug = profiles[i].slug )
          => /\ Last(responses').job_id = profiles[i].id
             /\ Len(profiles') = Len(profiles)
             /\ pc' = pc ]_vars

\* C3: once the pipeline has marked the overall status, a job with at least one
\* succeeded platform, at least one failed platform and none open is partial.
C3_PartialPrecedence ==
    \A j \in DOMAIN profiles :
        ( /\ Aggregated(j)
          /\ AnyIn(profiles[j], SucceededSet)
          /\ AnyIn(profiles[j], {"failed"})
          /\ ~AnyIn(profiles[j], OpenSet) )
        => profiles[j].status = "partial"

\* C4: once the pipeline has marked the overall status, it is done exactly when
\* every platform status is done, warming_up or ready.
C4_DoneIffAllSucceeded ==
    \A j \in DOMAIN profiles :
        Aggregated(j) => (profiles[j].status = "done" <=> AllIn(profiles[j], SucceededSet))

C4_Witness ==
    \E j \in DOMAIN profiles :
        /\ pc[j] = "finished"
        /\ profiles[j].status = "done"
        /\ PlatformStatuses(profiles[j]) = <<"done", "done", "warming_up">>

\* the aggregation rule of the specification on the three platform statuses;
\* "open" stands for the case in which the status stays what it was
AggregationRule(row) ==
    IF AllIn(row, SucceededSet) THEN "done"
    ELSE IF AnyIn(row, OpenSet) THEN "open"
    ELSE IF AnyIn(row, SucceededSet) THEN "partial"
    ELSE "failed"

\* C5: in every state the overall status of every row is the value the aggregation
\* rule gives for the row's three platform statuses (pending or in_progress while
\* the rule leaves the status open).
C5_StatusIsAggregate ==
    \A j \in DOMAIN profiles :
        IF AggregationRule(profiles[j]) = "open"
        THEN profiles[j].status \in {"pending", "in_progress"}
        ELSE profiles[j].status = AggregationRule(profiles[j])

\* statuses reachable from s along pending -> in_progress -> {done | failed},
\* for Instagram also done -> warming_up -> ready
ForwardFrom(s, instagram) ==
    LET warm == IF instagram THEN {"warming_up", "ready"} ELSE {}
    IN  CASE s = "pending"     -> {"pending", "in_progress", "done", "failed"} \cup warm
          [] s = "in_progress" -> {"in_progress", "done", "failed"} \cup warm
          [] s = "done"        -> {"done"} \cup warm
          [] s = "warming_up"  -> {"warming_up", "ready"}
          [] OTHER             -> {s}

Terminal == {"done", "failed"}

\* C7: completed_at is null while the overall status is not terminal and is
\* stamped when the overall status is done or failed.
C7_CompletedAtStamped ==
    \A j \in DOMAIN profiles :
        profiles[j].status \in Terminal <=> profiles[j].completed_at # NullTime

\* C8: a job submitted with a callback URL gets exactly one callback attempt, made
\* with a terminal overall status: none earlier, one once the pipeline has ended.
C8_SingleTerminalCallback ==
    \A j \in DOMAIN profiles :
        /\ Len(callbacks[j]) <= 1
        /\ \A n \in DOMAIN callbacks[j] : callbacks[j][n].payload.status \in Terminal
        /\ (pc[j] = "finished" /\ args[j].callback_url # NULL) => Len(callbacks[j]) = 1

\* C9: when the Instagram task of a job has been invoked, the job's Facebook and
\* YouTube statuses are done or failed.
C9_InstagramAfterTerminal ==
    \A j \in DOMAIN profiles :
        (pc[j] = "ig" \/ "instagram" \in task_calls[j])
        => /\ profiles[j].fb_status \in Terminal
           /\ profiles[j].yt_status \in Terminal

\* the row holds the outcome the Facebook task returned
FbReflected(row, result) ==
    IF result.success
    THEN /\ row.fb_status = "done"
         /\ row.fb_page_id = Or(result.page_id, "")
         /\ row.fb_url = Or(result.page_url, "")
         /\ row.fb_page_name = OrText(result.page_name, <<>>)
         /\ row.fb_error = NULL
    ELSE /\ row.fb_status = "failed"
         /\ row.fb_error = Or(result.error, "Unknown error")
         /\ row.fb_url = NULL /\ row.fb_page_id = NULL /\ row.fb_page_name = NullText

\* the row holds the outcome the YouTube task returned
YtReflected(row, result) ==
    IF result.success
    THEN /\ row.yt_status = "done"
         /\ row.yt_channel_id = Or(result.channel_id, "")
         /\ row.yt_url = Or(result.channel_url, "")
         /\ row.yt_channel_name = OrText(result.channel_name, <<>>)
         /\ row.yt_handle = result.handle
         /\ row.yt_error = NULL
    ELSE /\ row.yt_status = "failed"
         /\ row.yt_error = Or(result.error, "Unknown error")
         /\ row.yt_url = NULL /\ row.yt_channel_id = NULL
         /\ row.yt_channel_name = NullText /\ row.yt_handle = NULL

\* C10: once the Facebook thread and the YouTube thread of a job have both
\* written their result, in whichever order, the row holds both outcomes.
C10_NoLostUpdate ==
    \A j \in DOMAIN profiles :
        (fb_pc[j] = "done" /\ yt_pc[j] = "done")
        => /\ FbReflected(profiles[j], fb_result[j])
           /\ YtReflected(profiles[j], yt_result[j])

C10_Witness ==
    \E j \in DOMAIN profiles :
        /\ fb_pc[j] = "done" /\ yt_pc[j] = "done"
        /\ fb_result[j].success /\ yt_result[j].success
        /\ profiles[j].fb_url = "https://www.facebook.com/StageNew"
        /\ profiles[j].yt_url = "https://www.youtube.com/channel/UCabc"

\* C11: a platform task that ended by raising leaves its platform status failed:
\* once the Facebook or YouTube thread of a job has ended, that platform's status
\* is no longer pending, and once the pipeline has marked the overall status no
\* platform is pending and the overall status is not in_progress.
C11_ExceptionContained ==
    \A j \in DOMAIN profiles :
        /\ fb_pc[j] \in {"done", "raised"} => profiles[j].fb_status # "pending"
        /\ yt_pc[j] \in {"done", "raised"} => profiles[j].yt_status # "pending"
        /\ Aggregated(j) => /\ ~AnyIn(profiles[j], {"pending"})
                            /\ profiles[j].status # "in_progress"

FbColumns == {"fb_status", "fb_page_name", "fb_page_id", "fb_url", "fb_error"}

YtColumns == {"yt_status", "yt_channel_name", "yt_channel_id", "yt_url", "yt_handle",
              "yt_error"}

IgColumns == {"ig_status", "ig_handle", "ig_username", "ig_password", "ig_phone",
              "ig_device_id", "ig_warmup_day", "ig_warmup_status", "ig_url", "ig_error"}

\* the columns in cols have the same values in both versions of a row
SameColumns(old, new, cols) == \A c \in cols : new[c] = old[c]

\* the row holds the outcome the Instagram task returned
IgReflected(row, result, ig_handle) ==
    IF result.success
    THEN /\ row.ig_status = "warming_up"
         /\ row.ig_username = OrText(result.ig_username, ig_handle)
         /\ row.ig_handle = <<"@">> \o row.ig_username
         /\ row.ig_url = IgUrlPrefix \o row.ig_username
         /\ row.ig_password = Or(result.ig_password, "")
         /\ row.ig_phone = Or(result.phone_used, "")
         /\ row.ig_device_id = Or(result.device_id, "")
         /\ row.ig_warmup_status = result.warmup_status
         /\ row.ig_error = NULL
    ELSE /\ row.ig_status = "failed"
         /\ row.ig_error = Or(result.error, "Unknown error")
         /\ row.ig_username = NullText /\ row.ig_handle = NullText
         /\ row.ig_url = NullText /\ row.ig_password = NULL
         /\ row.ig_phone = NULL /\ row.ig_device_id = NULL

\* a platform task of job j has failed: it raised or it returned a failure
SomeTaskFailed(j) ==
    \/ fb_pc[j] = "raised"
    \/ yt_pc[j] = "raised"
    \/ (fb_result[j] # None /\ ~fb_result[j].success)
    \/ (yt_result[j] # None /\ ~yt_result[j].success)
    \/ (ig_result[j] # None /\ ~ig_result[j].success)

\* a step that turns one platform's status to failed leaves the columns of the
\* other two platforms as they were
FailureTouchesOwnColumns(j) ==
    /\ (profiles'[j].fb_status = "failed" /\ profiles[j].fb_status # "failed")
       => SameColumns(profiles[j], profiles'[j], YtColumns \cup IgColumns)
    /\ (profiles'[j].yt_status = "failed" /\ profiles[j].yt_status # "failed")
       => SameColumns(profiles[j], profiles'[j], FbColumns \cup IgColumns)
    /\ (profiles'[j].ig_status = "failed" /\ profiles[j].ig_status # "failed")
       => SameColumns(profiles[j], profiles'[j], FbColumns \cup YtColumns)

\* whatever failed, every task of a finished job was invoked, the result of every
\* task that returned one is in the row, and a failure keeps the job from done
FailureIsolated(j) ==
    /\ pc[j] = "finished" => task_calls[j] = {"facebook", "youtube", "instagram"}
    /\ fb_pc[j] = "done" => FbReflected(profiles[j], fb_result[j])
    /\ yt_pc[j] = "done" => YtReflected(profiles[j], yt_result[j])
    /\ pc[j] \in {"read", "mark", "callback", "finished"}
       => IgReflected(profiles[j], ig_result[j], args[j].handles.ig_handle)
    /\ (Aggregated(j) /\ SomeTaskFailed(j)) => profiles[j].status \in {"failed", "partial"}

\* C12: the failure of one platform's task does not keep the other tasks from
\* running and recording their results: the step that marks a platform failed
\* changes no column of the other platforms, every task of the job is still
\* invoked and its result recorded, and the overall status shows the failure.
C12_FailureIsolation ==
    /\ [](\A j \in DOMAIN profiles : FailureIsolated(j))
    /\ [][\A j \in DOMAIN profiles : FailureTouchesOwnColumns(j)]_vars

C12_Witness ==
    \E j \in DOMAIN profiles :
        /\ pc[j] = "finished"
        /\ fb_pc[j] = "done" /\ yt_pc[j] = "done"
        /\ ~fb_result[j].success /\ yt_result[j].success /\ ig_result[j].success
        /\ PlatformStatuses(profiles[j]) = <<"failed", "done", "warming_up">>
        /\ profiles[j].yt_url = "https://www.youtube.com/channel/UCabc"
        /\ profiles[j].fb_url = NULL
        /\ profiles[j].status = "failed"

\* C13: the step that answers a submit request answers with the job id and status
\* pending while the job's row is pending on every platform and none of its
\* platform tasks has been invoked: the pipeline is still queued.
C13_NonBlockingSubmit ==
    [][ Len(responses') = Len(responses) + 1
        => LET r == Last(responses')
           IN  /\ r.job_id \in DOMAIN profiles'
               /\ r.status = "pending"
               /\ profiles'[r.job_id].status = "pending"
               /\ AllIn(profiles'[r.job_id], {"pending"})
               /\ pc'[r.job_id] = "queued"
               /\ fb_pc'[r.job_id] = "idle" /\ yt_pc'[r.job_id] = "idle"
               /\ task_calls'[r.job_id] = {} ]_vars

C13_Witness ==
    \E a \in DOMAIN responses :
        /\ responses[a].status = "pending"
        /\ pc[responses[a].job_id] = "queued"
        /\ task_calls[responses[a].job_id] = {}
        /\ AllIn(profiles[responses[a].job_id], {"pending"})

\* the pipeline of job j, or one of its platform tasks, has started
Started(j) ==
    \/ pc[j] \notin {"none", "queued"}
    \/ fb_pc[j] # "idle"
    \/ yt_pc[j] # "idle"
    \/ task_calls[j] # {}

\* the row a submit has just inserted
FreshRow(row) ==
    /\ row.status = "pending"
    /\ AllIn(row, {"pending"})
    /\ row.handles_json = as_dict(generate_handles(row.title, BRAND_PREFIX))
    /\ row.slug = row.handles_json.slug
    /\ row.completed_at = NullTime

\* C15: the step that adds a job row adds it with overall status pending, every
\* platform status pending and the generated handles stored in it, and no
\* pipeline or platform task of a job has started while the job has no row.
C15_JobCreationState ==
    /\ [](\A j \in JobIds : (pc[j] # "none" \/ Started(j)) => j \in DOMAIN profiles)
    /\ [][ Len(profiles') > Len(profiles)
           => /\ Len(profiles') = Len(profiles) + 1
              /\ FreshRow(Last(profiles'))
              /\ ~Started(Len(profiles')) ]_vars

C15_Witness ==
    \E j \in DOMAIN profiles :
        /\ pc[j] = "queued"
        /\ FreshRow(profiles[j])
        /\ profiles[j].handles_json.instagram.handle_raw
             = <<"s","t","a","g","e",".","u","p","9">>

\* the Instagram result of job j has been written to its row
IgRecorded(j) == pc[j] \in {"read", "mark", "callback", "finished"}

\* C18: once the Instagram result of a job is recorded, a success has set the
\* Instagram status to warming_up with the account identifiers stored and a
\* failure has set it to failed with the error stored; it is never done.
C18_InstagramOutcome ==
    \A j \in DOMAIN profiles :
        /\ profiles[j].ig_status # "done"
        /\ IgRecorded(j)
           => /\ IgReflected(profiles[j], ig_result[j], args[j].handles.ig_handle)
              /\ ig_result[j].success => /\ profiles[j].ig_status = "warming_up"
                                         /\ profiles[j].ig_username # NullText
                                         /\ profiles[j].ig_device_id # NULL
              /\ ~ig_result[j].success => /\ profiles[j].ig_status = "failed"
                                          /\ profiles[j].ig_error # NULL

C18_Witness ==
    \E j \in DOMAIN profiles :
        /\ IgRecorded(j)
        /\ ig_result[j].success
        /\ profiles[j].ig_status = "warming_up"
        /\ profiles[j].ig_username = <<"s","t","a","g","e",".","k","o","t","a">>
        /\ profiles[j].ig_device_id = "dev-1"

\* the step posts the callback of job j and the post fails
CallbackFails(j) ==
    /\ Len(callbacks'[j]) = Len(callbacks[j]) + 1
    /\ Last(callbacks'[j]).outcome = "failed"

\* C20: a callback post that fails changes nothing in the job row, ends the
\* pipeline, and is not tried again: the job has at most one callback attempt and
\* the row of a finished job is never written.
C20_CallbackIsolation ==
    /\ [](\A j \in DOMAIN profiles : Len(callbacks[j]) <= 1)
    /\ [][ \A j \in DOMAIN profiles :
             /\ CallbackFails(j) => (profiles'[j] = profiles[j] /\ pc'[j] = "finished")
             /\ pc[j] = "finished" => (profiles'[j] = profiles[j]
                                       /\ callbacks'[j] = callbacks[j]) ]_vars

C20_Witness ==
    \E j \in DOMAIN profiles :
        /\ pc[j] = "finished"
        /\ Len(callbacks[j]) = 1
        /\ callbacks[j][1].outcome = "failed"
        /\ profiles[j].status = "done"
        /\ callbacks[j][1].payload = summary(profiles, j)

\* C14: the Facebook worker and the YouTube worker of a job never hold the same
\* tab of the shared Chrome: the page the YouTube worker selected is not the
\* page the Facebook worker opened.
C14_IndependentSessions ==
    (fb_tab.page # NoPage /\ yt_tab.page # NoPage) => fb_tab.page # yt_tab.page

\* C16: a submit request with a missing or empty title is rejected: it leaves no
\* job row and no pipeline is scheduled or started for it.
C16_TitleValidated ==
    /\ \A i \in DOMAIN profiles : profiles[i].title \notin {<<>>, NullText}
    /\ \A j \in JobIds :
         (args[j] # None /\ args[j].title \in {<<>>, NullText})
         => (pc[j] = "none" /\ ~Started(j))

\* C17: in every row, a platform whose status is not failed (pending, done,
\* warming_up or ready) has no error recorded.
C17_ErrorOnlyWhenFailed ==
    \A i \in DOMAIN profiles :
        /\ profiles[i].fb_status # "failed" => profiles[i].fb_error = NULL
        /\ profiles[i].yt_status # "failed" => profiles[i].yt_error = NULL
        /\ profiles[i].ig_status # "failed" => profiles[i].ig_error = NULL

\* the summary holds, field by field, the values of one version of the row
SummaryOfRow(response, row) ==
    /\ response.job_id = row.id
    /\ response.title = row.title
    /\ response.status = row.status
    /\ response.facebook = [status |-> row.fb_status, page_name |-> row.fb_page_name,
                            url |-> row.fb_url]
    /\ response.youtube = [status |-> row.yt_status, channel_name |-> row.yt_channel_name,
                           handle |-> row.yt_handle, url |-> row.yt_url]
    /\ response.instagram = [status |-> row.ig_status, handle |-> row.ig_handle,
                             warmup_day |-> row.ig_warmup_day,
                             warmup_status |-> row.ig_warmup_status, url |-> row.ig_url]

\* what one write of the store puts in a row together appears together
WholeWrites(response) ==
    /\ response.facebook.status = "done" <=> response.facebook.url # NULL
    /\ response.youtube.status = "done" <=> response.youtube.url # NULL
    /\ response.instagram.status = "warming_up" <=> response.instagram.url # NullText
    /\ response.status \in {"pending"} => /\ response.facebook.status = "pending"
                                          /\ response.youtube.status = "pending"
                                          /\ response.instagram.status = "pending"

\* a status request for a job that has a row has been answered
Answered == query.pc = "answered" /\ query.row # None

\* the platform tasks of job j are running or still to run in its pipeline
TasksRunning(j) == pc[j] \in {"join", "ig", "ig_returned"}

\* C19: every summary a status query returns holds the values the job's row had
\* at one instant, the read of the summary, and a query answered while the
\* tasks of the job run shows status in_progress with the platform statuses
\* the row has then.
C19_SnapshotConsistency ==
    /\ [](Answered => /\ SummaryOfRow(query.response, query.row)
                      /\ WholeWrites(query.response))
    /\ [][ (query.pc = "read" /\ query'.pc = "answered" /\ query'.row # None
            /\ TasksRunning(query.job_id))
           => /\ query'.response.status = "in_progress"
              /\ query'.response.facebook.status = profiles[query.job_id].fb_status
              /\ query'.response.youtube.status = profiles[query.job_id].yt_status
              /\ query'.response.instagram.status = profiles[query.job_id].ig_status ]_vars

\* a query whose two reads saw different versions of the row: pending at the
\* first, the pipeline started and Facebook recorded by the second
C19_Witness ==
    /\ Answered
    /\ query.job.status = "pending"
    /\ query.response.status = "in_progress"
    /\ query.response.facebook.status = "done"
    /\ query.response.youtube.status = "pending"

\* C29: a row whose Instagram status is warming_up has a warmup that was
\* triggered: its ig_warmup_status is warming_up, or complete.
C29_WarmupTriggered ==
    \A i \in DOMAIN profiles :
        profiles[i].ig_status = "warming_up"
        => profiles[i].ig_warmup_status \in {"warming_up", "complete"}

\* the characters an Instagram handle may hold
IgHandleChars == LowerLetters \cup Digits \cup {"_", "."}

\* C24: the handle generate_ig_handle returns has at most 30 characters, all of
\* them a-z, 0-9, '_' or '.', no two dots in a row, and no dot first or last.
C24_IgHandleValid ==
    naming.handle # NullText
    => LET h == naming.handle
       IN  /\ Len(h) <= IgMaxLen
           /\ \A n \in DOMAIN h : h[n] \in IgHandleChars
           /\ \A n \in 1..(Len(h) - 1) : ~(h[n] = "." /\ h[n + 1] = ".")
           /\ h # <<>> => (h[1] # "." /\ h[Len(h)] # ".")

\* a token column holds the value of a result's field when the field is present
Stored(column, field) == field # NULL => column = field

\* a text column holds the value of a result's field when the field is present
StoredText(column, field) == field # NullText => column = field

\* the Instagram result of job j has been written to its row
IgWritten(j) == pc[j] \in {"read", "mark", "callback", "finished"}

\* C22: when a platform task returns success with any of its identifiers
\* missing, the platform status still becomes done (Instagram: warming_up), the
\* identifiers that are present are stored, and a job whose three tasks
\* succeeded is marked done, whichever identifiers are missing.
C22_PartialIdentifiersTolerated ==
    \A j \in JobIds :
        /\ (fb_pc[j] = "done" /\ fb_result[j].success)
           => /\ profiles[j].fb_status = "done"
              /\ Stored(profiles[j].fb_page_id, fb_result[j].page_id)
              /\ Stored(profiles[j].fb_url, fb_result[j].page_url)
              /\ StoredText(profiles[j].fb_page_name, fb_result[j].page_name)
        /\ (yt_pc[j] = "done" /\ yt_result[j].success)
           => /\ profiles[j].yt_status = "done"
              /\ Stored(profiles[j].yt_channel_id, yt_result[j].channel_id)
              /\ Stored(profiles[j].yt_url, yt_result[j].channel_url)
              /\ StoredText(profiles[j].yt_channel_name, yt_result[j].channel_name)
              /\ Stored(profiles[j].yt_handle, yt_result[j].handle)
        /\ (IgWritten(j) /\ ig_result[j].success)
           => /\ profiles[j].ig_status = "warming_up"
              /\ StoredText(profiles[j].ig_handle, ig_result[j].ig_handle)
              /\ StoredText(profiles[j].ig_username, ig_result[j].ig_username)
              /\ Stored(profiles[j].ig_password, ig_result[j].ig_password)
              /\ Stored(profiles[j].ig_phone, ig_result[j].phone_used)
              /\ Stored(profiles[j].ig_device_id, ig_result[j].device_id)
        /\ (/\ Aggregated(j)
            /\ fb_pc[j] = "done" /\ fb_result[j].success
            /\ yt_pc[j] = "done" /\ yt_result[j].success
            /\ ig_result[j].success)
           => profiles[j].status = "done"

\* a job marked done whose page id, channel id, handle and Instagram password
\* were all missing from the results, the other identifiers being stored
C22_Witness ==
    \E j \in JobIds :
        /\ Aggregated(j)
        /\ fb_result[j].success /\ fb_result[j].page_id = NULL
        /\ fb_result[j].page_url # NULL
        /\ yt_result[j].success /\ yt_result[j].channel_id = NULL
        /\ yt_result[j].handle = NULL /\ yt_result[j].channel_url # NULL
        /\ ig_result[j].success /\ ig_result[j].ig_password = NULL
        /\ profiles[j].fb_status = "done" /\ profiles[j].fb_page_id = ""
        /\ profiles[j].fb_url = fb_result[j].page_url
        /\ profiles[j].yt_status = "done" /\ profiles[j].yt_channel_id = ""
        /\ profiles[j].yt_url = yt_result[j].channel_url
        /\ profiles[j].ig_status = "warming_up" /\ profiles[j].ig_password = ""
        /\ profiles[j].status = "done"

\* the platforms a selection of --only names
SelectedPlatforms(only) ==
    {p \in {"facebook", "youtube", "instagram"} :
        \/ p = "facebook" /\ "fb" \in only
        \/ p = "youtube" /\ "yt" \in only
        \/ p = "instagram" /\ "ig" \in only}

\* the script has created a job
CliJob == cli.job_id # 0

\* the script is past its last platform block
CliTasksOver == CliJob /\ cli.pc \in {"summary", "returned"}

\* the row as db.create_job inserted it
AsCreated(row, handles) == create_job(<<>>, row.title, handles, row.created_at)[1]

C26_CliOverallRecomputed ==
    CliTasksOver => profiles[cli.job_id].status \in {"done", "partial", "failed"}

\* get_instagram_otp has leased a number
Leased == ig_work.request_id # NULL

\* get_instagram_otp has returned
OtpReturned == ig_work.otp_result # None

\* C27: once get_instagram_otp has leased a number, it makes exactly one
\* settlement call for the lease before it returns: confirm if and only if a
\* code was received, cancel otherwise; at no time has a lease been settled
\* twice, and nothing is settled without a lease.
C27_OtpLeaseSettled ==
    /\ ig_work.confirms + ig_work.cancels <= 1
    /\ ~Leased => ig_work.confirms + ig_work.cancels = 0
    /\ (Leased /\ OtpReturned)
       => /\ ig_work.confirms + ig_work.cancels = 1
          /\ ig_work.confirms = 1 <=> ig_work.otp # NULL
          /\ ig_work.cancels = 1 <=> ig_work.otp = NULL

\* a lease on which every poll of the 5sim wait passed without a code: the call
\* has returned its failure after one cancel
C27_Witness ==
    /\ Leased /\ OtpReturned
    /\ ig_work.service = "fivesim"
    /\ ig_work.otp_polls = OtpAttempts
    /\ ig_work.otp = NULL
    /\ ig_work.cancels = 1 /\ ig_work.confirms = 0
    /\ ~ig_work.otp_result.success

\* C28: create_instagram_account waits for the OTP code only after the leased
\* phone number has been entered into the signup form: no poll for the code is
\* made before the number is entered.
C28_OtpWaitAfterPhoneEntry ==
    ig_work.otp_polls > 0 => ig_work.phone_entered

\* no wait has made more polls than its limit
PollsWithinLimits ==
    /\ ig_work.otp_polls <= OtpAttempts
    /\ ig_work.device_polls <= DeviceAttempts
    /\ fb_work.polls <= FbRedirectPolls
    /\ yt_work.polls <= YtRedirectPolls

\* a wait that has made all its polls without what it waits for is left at its
\* next step, with the failure value
GivesUpAtLimit ==
    /\ (ig_work.pc = "otp_wait" /\ ig_work.otp_polls = OtpAttempts
        /\ ig_work'.pc # "otp_wait")
       => (ig_work'.pc = "otp_settle" /\ ig_work'.otp = NULL)
    /\ (ig_work.pc = "device_wait" /\ ig_work.device_polls = DeviceAttempts
        /\ ig_work'.pc # "device_wait")
       => (ig_work'.pc = "returned" /\ ~ig_work'.result.success)
    /\ (fb_tab.pc = "waiting" /\ fb_work.polls = FbRedirectPolls
        /\ fb_tab'.pc # "waiting")
       => ~fb_work'.result.success
    /\ (yt_tab.pc = "waiting" /\ yt_work.polls = YtRedirectPolls
        /\ yt_tab'.pc # "waiting")
       => ~yt_work'.result.success

\* C21: every polling wait of a platform task ends after a bounded number of
\* polls with a failure: wait_for_otp makes at most max_wait // poll_interval
\* polls and then returns None, wait_for_device_ready at most max_wait // 5 and
\* then returns False, and the Facebook and YouTube redirect waits make at most
\* 30 and then return a failure result.
C21_BoundedWaits == []PollsWithinLimits /\ [][GivesUpAtLimit]_vars

\* both redirect waits have timed out, and so has the wait for the OTP, on
\* which the task returned its failure
C21_Witness ==
    /\ fb_work.result # None
    /\ fb_work.result.error = "Timed out waiting for redirect after Create Page click"
    /\ yt_work.result # None
    /\ yt_work.result.error = "Timed out waiting for redirect after channel creation"
    /\ ig_work.pc = "returned"
    /\ ig_work.otp_polls = OtpAttempts
    /\ ig_work.result.error = "OTP number acquisition failed"

\* C25: a successful result of create_facebook_page carries a page_url that is
\* not empty and is a facebook.com URL other than the creation form, also when
\* no page id was extracted.
C25_FbSuccessUrl ==
    (fb_work.result # None /\ fb_work.result.success)
    => /\ fb_work.result.page_url \notin {NULL, ""}
       /\ FbRedirected(fb_work.result.page_url)

\* C30: when two jobs run at the same time on the shared Chrome, no tab is held
\* by tasks of both jobs at once: the YouTube task of the second job holds
\* neither the tab of the first job's YouTube task nor that of its Facebook
\* task.
C30_NoTabAcrossJobs ==
    yt_tab2.page # NoPage
    => /\ yt_tab.page # NoPage => yt_tab.page # yt_tab2.page
       /\ fb_tab.page # NoPage => fb_tab.page # yt_tab2.page

====
